---- MODULE Spec2Model ----
(***************************************************************************)
(* GraphCalc: the forcing closures (k-forcing, PSD forcing, power          *)
(* domination), the brute-force minimum-set searches built on them, the    *)
(* k-rainbow domination program, the degree-sequence invariants (residue,  *)
(* sub-k-domination, Slater, sub-total domination), and the 0/1 programs   *)
(* of the domination number and of the maximum independent set / clique.   *)
(*                                                                         *)
(* A graph is a record [nodes, edges]: nodes is the stored vertex order    *)
(* (what G.nodes() iterates), edges a set of two-element vertex sets.      *)
(* A call's outcome is a record [exc, kind, val]: exc is "none" for a      *)
(* normal return and the exception's name otherwise; kind tells what was   *)
(* returned ("bool", "set", "int", "None").                                *)
(***************************************************************************)
EXTENDS Integers, Sequences, FiniteSets

VARIABLES G, k, rule, S, T, pc, closS, closSS, closT, B, op, ret, degrees, rounds, msg, solve_msg

vars == <<G, k, rule, S, T, pc, closS, closSS, closT, B, op, ret, degrees, rounds,
          msg, solve_msg>>

\* Largest order of a graph drawn by Init.
MaxN == 4
\* Largest forcing parameter k drawn by Init.
MaxK == 3

----------------------------------------------------------------------------
(* Graphs *)

Vertices(n) == 0 .. (n - 1)

AllPairs(n) == {e \in SUBSET Vertices(n) : Cardinality(e) = 2}

\* nx.path_graph(n).nodes(): 0, 1, ..., n-1 in insertion order.
IdentityOrder(n) == [i \in 1 .. n |-> i - 1]

\* G.nodes() as a set.
V(g) == {g.nodes[i] : i \in 1 .. Len(g.nodes)}

\* G.order()
order(g) == Len(g.nodes)

\* neighborhoods.neighborhood: N(v), the vertices adjacent to v.
neighborhood(g, v) == {u \in V(g) : {u, v} \in g.edges}

\* neighborhoods.closed_neighborhood: N[v] = N(v) \cup {v}.
closed_neighborhood(g, v) == neighborhood(g, v) \cup {v}

\* neighborhoods.set_closed_neighbors: N[S], the union of N[v] over v in S.
set_closed_neighbors(g, nodes) == UNION {closed_neighborhood(g, v) : v \in nodes}

\* G.subgraph(S): the induced subgraph, in the stored order of G.
subgraph(g, nodes) ==
    [nodes |-> SelectSeq(g.nodes, LAMBDA v : v \in nodes),
     edges |-> {e \in g.edges : e \subseteq nodes}]

\* The vertices of W reachable from R inside the subgraph induced by W.
RECURSIVE ReachFrom(_, _, _)
ReachFrom(g, W, R) ==
    LET R2 == R \cup {u \in W : \E v \in R : {u, v} \in g.edges}
    IN  IF R2 = R THEN R ELSE ReachFrom(g, W, R2)

\* nx.connected_components(G): the vertex sets of the components.
connected_components(g) == {ReachFrom(g, V(g), {v}) : v \in V(g)}

----------------------------------------------------------------------------
(* Outcomes of a call *)

Return(kd, x) == [exc |-> "none", kind |-> kd, val |-> x]

ReturnNone == [exc |-> "none", kind |-> "None", val |-> {}]

Raise(e) == [exc |-> e, kind |-> "nothing", val |-> {}]

NotCalled == [exc |-> "none", kind |-> "not called", val |-> {}]

----------------------------------------------------------------------------
(* k-forcing *)

\* is_k_forcing_vertex with the fault "n == k": active only with exactly k
\* white neighbours.
is_k_forcing_vertex_exactly_k(g, v, nodes, kk) ==
    IF kk < 1 THEN Raise("ValueError")
    ELSE LET Sg == nodes \cap V(g)
             n  == Cardinality(neighborhood(g, v) \ Sg)
         IN  Return("bool", v \in Sg /\ n = kk)

\* is_k_forcing_vertex with the fault "n >= 1" only: the cap k is dropped.
is_k_forcing_vertex_no_cap(g, v, nodes, kk) ==
    IF kk < 1 THEN Raise("ValueError")
    ELSE LET Sg == nodes \cap V(g)
             n  == Cardinality(neighborhood(g, v) \ Sg)
         IN  Return("bool", v \in Sg /\ n >= 1)

\* is_k_forcing_vertex with the fault "n < k" for "n <= k".
is_k_forcing_vertex_strictly_below_k(g, v, nodes, kk) ==
    IF kk < 1 THEN Raise("ValueError")
    ELSE LET Sg == nodes \cap V(g)
             n  == Cardinality(neighborhood(g, v) \ Sg)
         IN  Return("bool", v \in Sg /\ n >= 1 /\ n < kk)

\* is_k_forcing_vertex(G, v, nodes, k): k is validated first, then v is
\* active iff it is coloured and has between 1 and k white neighbours.
is_k_forcing_vertex(g, v, nodes, kk) ==
    IF kk < 1 THEN Raise("ValueError")
    ELSE LET Sg == nodes \cap V(g)
             n  == Cardinality(neighborhood(g, v) \ Sg)
         IN  Return("bool", v \in Sg /\ n >= 1 /\ n <= kk)

\* The loop "for v in S: if is_k_forcing_vertex(G, v, S, k): return True",
\* the first call of is_k_forcing_vertex having ended with outcome first: an
\* exception (raised for k, so by the first call if at all) ends the loop.
any_k_forcing_vertex(g, Sg, kk, first) ==
    IF first.exc # "none" THEN first
    ELSE Return("bool", \E v \in Sg : is_k_forcing_vertex(g, v, Sg, kk).val)

\* is_k_forcing_active_set(G, nodes, k): with S empty the loop makes no call
\* of is_k_forcing_vertex (and k is never looked at).
is_k_forcing_active_set(g, nodes, kk) ==
    IF nodes \cap V(g) = {} THEN Return("bool", FALSE)
    ELSE any_k_forcing_vertex(g, nodes \cap V(g), kk,
            is_k_forcing_vertex(g, CHOOSE v \in nodes \cap V(g) : TRUE,
                                nodes \cap V(g), kk))

\* One pass of the body of the while loop of is_k_forcing_set: every vertex
\* active at the start of the round adds its whole neighbourhood.
k_forcing_round(g, Z, kk) ==
    Z \cup UNION {neighborhood(g, v) : v \in {u \in Z : is_k_forcing_vertex(g, u, Z, kk).val}}

\* "if" in place of "while", its condition evaluated to act.
k_forcing_if(g, Z, kk, act) ==
    IF act.exc # "none" THEN act
    ELSE IF act.val THEN Return("set", k_forcing_round(g, Z, kk))
    ELSE Return("set", Z)

\* The loop of is_k_forcing_set with the fault "if" for "while": one round.
k_forcing_loop_once(g, Z, kk) ==
    k_forcing_if(g, Z, kk, is_k_forcing_active_set(g, Z, kk))

RECURSIVE k_forcing_loop(_, _, _)

\* The while statement of is_k_forcing_set, its condition evaluated to act:
\* an exception of the condition ends the call, true runs the body and
\* loops, false leaves the loop with Z.
k_forcing_while(g, Z, kk, act) ==
    IF act.exc # "none" THEN act
    ELSE IF act.val THEN k_forcing_loop(g, k_forcing_round(g, Z, kk), kk)
    ELSE Return("set", Z)

\* The while loop of is_k_forcing_set, from Z: the outcome is the set Z at
\* loop exit, or the exception the loop condition raised.
k_forcing_loop(g, Z, kk) ==
    k_forcing_while(g, Z, kk, is_k_forcing_active_set(g, Z, kk))

\* The set Z that is_k_forcing_set compares with V (for a valid k).
k_forcing_closure(g, nodes, kk) == k_forcing_loop(g, nodes \cap V(g), kk).val

\* "return Z == set(G.nodes())", for the outcome r of the loop.
return_Z_is_V(g, r) ==
    IF r.exc # "none" THEN r ELSE Return("bool", r.val = V(g))

\* is_k_forcing_set(G, nodes, k)
is_k_forcing_set(g, nodes, kk) ==
    return_Z_is_V(g, k_forcing_loop(g, nodes \cap V(g), kk))

----------------------------------------------------------------------------
(* PSD forcing *)

\* is_psd_forcing_vertex with the fault of counting the white neighbours of
\* v in the whole graph, not in the component (the zero forcing rule).
is_psd_forcing_vertex_ignoring_component(g, v, black_set, component) ==
    LET white_neighbors == neighborhood(g, v) \ black_set
    IN  IF Cardinality(white_neighbors) = 1 /\ white_neighbors \subseteq component
        THEN [can_force |-> TRUE, w |-> white_neighbors]
        ELSE [can_force |-> FALSE, w |-> {}]

\* is_psd_forcing_vertex with the fault ">= 1" for "== 1": every neighbour
\* of v in the component is forced.
is_psd_forcing_vertex_at_least_one(g, v, black_set, component) ==
    LET white_neighbors_in_component == neighborhood(g, v) \cap component
    IN  IF Cardinality(white_neighbors_in_component) >= 1
        THEN [can_force |-> TRUE, w |-> white_neighbors_in_component]
        ELSE [can_force |-> FALSE, w |-> {}]

\* is_psd_forcing_vertex(G, v, black_set, component): (True, w) when v has
\* exactly one neighbour in the component; w is given as the one-element set.
is_psd_forcing_vertex(g, v, black_set, component) ==
    LET white_neighbors_in_component == neighborhood(g, v) \cap component
    IN  IF Cardinality(white_neighbors_in_component) = 1
        THEN [can_force |-> TRUE, w |-> white_neighbors_in_component]
        ELSE [can_force |-> FALSE, w |-> {}]

\* The set new_black built by one pass of the while loop of psd_color_change.
psd_new_black(g, black_set, white_set) ==
    UNION {is_psd_forcing_vertex(g, v, black_set, component).w :
             v \in black_set,
             component \in connected_components(subgraph(g, white_set))}

\* The loop of psd_color_change with the fault of leaving after the first
\* round of forces.
psd_loop_once(g, black_set, white_set) ==
    black_set \cup psd_new_black(g, black_set, white_set)

\* The while True loop of psd_color_change.
RECURSIVE psd_loop(_, _, _)
psd_loop(g, black_set, white_set) ==
    LET new_black == psd_new_black(g, black_set, white_set)
    IN  IF new_black = {} THEN black_set
        ELSE psd_loop(g, black_set \cup new_black, white_set \ new_black)

\* psd_color_change(G, black_set)
psd_color_change(g, black_set) == psd_loop(g, black_set, V(g) \ black_set)

\* is_psd_zero_forcing_set(G, black_set)
is_psd_zero_forcing_set(g, black_set) ==
    Return("bool", Cardinality(psd_color_change(g, black_set)) = order(g))

----------------------------------------------------------------------------
(* Power domination *)

\* is_k_power_dominating_set with the fault of leaving out the domination
\* step: the seed itself, not N[seed], is handed to is_k_forcing_set.
is_k_power_dominating_set_no_domination_step(g, nodes, kk) ==
    is_k_forcing_set(g, nodes, kk)

\* is_k_power_dominating_set(G, nodes, k)
is_k_power_dominating_set(g, nodes, kk) ==
    is_k_forcing_set(g, set_closed_neighbors(g, nodes), kk)

\* The set Z computed inside is_k_power_dominating_set: the k-forcing
\* closure of N[nodes].
power_closure(g, nodes, kk) ==
    k_forcing_closure(g, set_closed_neighbors(g, nodes), kk)

----------------------------------------------------------------------------
(* Predicates tested by the searches *)

\* degree.minimum_degree: the least degree of a vertex of G.
minimum_degree(g) ==
    LET deg(v) == Cardinality(neighborhood(g, v))
    IN  CHOOSE d \in {deg(v) : v \in V(g)} : \A u \in V(g) : d <= deg(u)

\* basics.connected(G) = nx.is_connected(G), which raises on the null graph.
connected(g) ==
    IF order(g) = 0 THEN Raise("NetworkXPointlessConcept")
    ELSE Return("bool", Cardinality(connected_components(g)) = 1)

\* is_zero_forcing_set(G, S)
is_zero_forcing_set(g, nodes) == is_k_forcing_set(g, nodes, 1)

\* is_total_zero_forcing_set with the fault of leaving out the loop that
\* looks for a vertex of S without a neighbour in S.
is_total_zero_forcing_set_no_isolation_test(g, nodes) ==
    is_zero_forcing_set(g, nodes \cap V(g))

\* is_total_zero_forcing_set(G, nodes)
is_total_zero_forcing_set(g, nodes) ==
    LET Sg == nodes \cap V(g)
    IN  IF \E v \in Sg : neighborhood(g, v) \cap Sg = {}
        THEN Return("bool", FALSE)
        ELSE is_zero_forcing_set(g, Sg)

\* is_connected_k_forcing_set with the fault of leaving out connected(H).
is_connected_k_forcing_set_no_connected_test(g, nodes, kk) ==
    IF kk < 1 THEN Raise("ValueError")
    ELSE is_k_forcing_set(g, nodes \cap V(g), kk)

\* is_connected_k_forcing_set(G, nodes, k): "connected(H) and
\* is_k_forcing_set(G, S, k)" evaluates the second operand only when the
\* first is true.
is_connected_k_forcing_set(g, nodes, kk) ==
    IF kk < 1 THEN Raise("ValueError")
    ELSE LET Sg == nodes \cap V(g)
             cH == connected(subgraph(g, Sg))
         IN  IF cH.exc # "none" THEN cH
             ELSE IF ~cH.val THEN Return("bool", FALSE)
             ELSE is_k_forcing_set(g, Sg, kk)

\* domination.is_dominating_set(G, S): every closed neighbourhood meets S.
is_dominating_set(g, nodes) ==
    Return("bool", \A v \in V(g) : \E u \in closed_neighborhood(g, v) : u \in nodes)

\* domination.complement_is_connected(G, S): nx.is_connected on the subgraph
\* induced by the nodes outside S, which raises when there is none.
complement_is_connected(g, nodes) == connected(subgraph(g, V(g) \ nodes))

\* "a and b": b is evaluated only when a holds.
and_then(a, b) == IF a.val THEN b ELSE a

\* domination.is_outer_connected_dominating_set(G, S)
is_outer_connected_dominating_set(g, nodes) ==
    and_then(is_dominating_set(g, nodes), complement_is_connected(g, nodes))

\* The predicate a search tests on a candidate.
test(g, pred, nodes, kk) ==
    CASE pred = "k-forcing" -> is_k_forcing_set(g, nodes, kk)
      [] pred = "total"     -> is_total_zero_forcing_set(g, nodes)
      [] pred = "connected" -> is_connected_k_forcing_set(g, nodes, kk)
      [] pred = "power"     -> is_k_power_dominating_set(g, nodes, kk)
      [] pred = "psd"       -> is_psd_zero_forcing_set(g, nodes)
      [] pred = "outer-connected" -> is_outer_connected_dominating_set(g, nodes)

----------------------------------------------------------------------------
(* Subset search: for i in range(lo, n + 1): for S in combinations(nodes, i) *)

\* itertools.combinations(nodes, r): the first tuple of positions, 1, ..., r.
first_combination(r) == [j \in 1 .. r |-> j]

\* itertools.combinations: some position can still be advanced.
has_next_combination(c, n) ==
    \E j \in 1 .. Len(c) : c[j] # j + n - Len(c)

\* itertools.combinations: advance the rightmost position that is not at its
\* maximum and reset the positions after it.
next_combination(c, n) ==
    LET r == Len(c)
        i == CHOOSE j \in 1 .. r :
                /\ c[j] # j + n - r
                /\ \A m \in (j + 1) .. r : c[m] = m + n - r
    IN  [m \in 1 .. r |-> IF m < i THEN c[m] ELSE c[i] + 1 + (m - i)]

\* The vertices at the positions of a combination.
combination_set(g, c) == {g.nodes[c[j]] : j \in 1 .. Len(c)}

RECURSIVE scan_combinations_last(_, _, _, _)

\* The candidate c tested with outcome t, the later candidates of the size
\* scanned with outcome rest: a later hit replaces an earlier one.
keep_last_hit(g, c, t, rest) ==
    IF t.exc # "none" THEN t
    ELSE IF rest.kind = "set" \/ rest.exc # "none" THEN rest
    ELSE IF t.val THEN Return("set", combination_set(g, c))
    ELSE ReturnNone

\* The inner loop with the fault of not returning at the first hit: the last
\* candidate of the size that passes the test is the one returned.
scan_combinations_last(g, pred, kk, c) ==
    keep_last_hit(g, c, test(g, pred, combination_set(g, c), kk),
                  IF has_next_combination(c, order(g))
                  THEN scan_combinations_last(g, pred, kk, next_combination(c, order(g)))
                  ELSE ReturnNone)

RECURSIVE scan_combinations(_, _, _, _)

\* "if predicate(G, S): return set(S)" for the candidate at c, the
\* predicate evaluated to t; otherwise on to the next combination.
return_if_hit(g, pred, kk, c, t) ==
    IF t.exc # "none" THEN t
    ELSE IF t.val THEN Return("set", combination_set(g, c))
    ELSE IF has_next_combination(c, order(g))
         THEN scan_combinations(g, pred, kk, next_combination(c, order(g)))
         ELSE ReturnNone

\* The inner loop, from combination c on: the first candidate that passes
\* the test is returned; an exception of the test ends the search; kind
\* "None" says the combinations of this size are used up.
scan_combinations(g, pred, kk, c) ==
    return_if_hit(g, pred, kk, c, test(g, pred, combination_set(g, c), kk))

RECURSIVE subset_search(_, _, _, _)

\* Size i scanned with outcome r: a hit or an exception ends the search,
\* otherwise the next size is tried.
next_size_unless_found(g, pred, kk, i, r) ==
    IF r.exc # "none" \/ r.kind = "set" THEN r
    ELSE subset_search(g, pred, kk, i + 1)

\* The outer loop over the sizes i, i+1, ..., n. Falling off the loop
\* returns None.
subset_search(g, pred, kk, i) ==
    IF i > order(g) THEN ReturnNone
    ELSE next_size_unless_found(g, pred, kk, i,
                                scan_combinations(g, pred, kk, first_combination(i)))

\* len(x): a TypeError when x is None.
len(r) ==
    IF r.exc # "none" THEN r
    ELSE IF r.kind = "None" THEN Raise("TypeError")
    ELSE Return("int", Cardinality(r.val))

\* minimum_k_forcing_set with the fault of using the minimum-degree bound
\* for every k.
minimum_k_forcing_set_bound_for_all_k(g, kk) ==
    subset_search(g, "k-forcing", kk, minimum_degree(g))

\* minimum_k_forcing_set(G, k)
minimum_k_forcing_set(g, kk) ==
    LET rangeMin == IF kk = 1 THEN minimum_degree(g) ELSE 1
    IN  subset_search(g, "k-forcing", kk, rangeMin)

\* k_forcing_number(G, k)
k_forcing_number(g, kk) == len(minimum_k_forcing_set(g, kk))

\* minimum_zero_forcing_set(G)
minimum_zero_forcing_set(g) == minimum_k_forcing_set(g, 1)

\* zero_forcing_number(G)
zero_forcing_number(g) == len(minimum_zero_forcing_set(g))

\* minimum_total_zero_forcing_set(G)
minimum_total_zero_forcing_set(g) == subset_search(g, "total", 1, 2)

\* "if Z is None: return None else: return len(Z)"
none_or_len(Z) ==
    IF Z.exc = "none" /\ Z.kind = "None" THEN ReturnNone ELSE len(Z)

\* total_zero_forcing_number(G)
total_zero_forcing_number(g) == none_or_len(minimum_total_zero_forcing_set(g))

\* minimum_connected_k_forcing_set(G, k)
minimum_connected_k_forcing_set(g, kk) ==
    IF kk < 1 THEN Raise("ValueError")
    ELSE LET cG == connected(g)
         IN  IF cG.exc # "none" THEN cG
             ELSE IF ~cG.val THEN ReturnNone
             ELSE subset_search(g, "connected", kk, 1)

\* connected_k_forcing_number(G, k)
connected_k_forcing_number(g, kk) ==
    IF kk < 1 THEN Raise("ValueError")
    ELSE none_or_len(minimum_connected_k_forcing_set(g, kk))

\* minimum_k_power_dominating_set(G, k)
minimum_k_power_dominating_set(g, kk) == subset_search(g, "power", kk, 1)

\* "return i": the size of the first hit r; None when there is no hit.
size_of_hit(r) ==
    IF r.exc = "none" /\ r.kind = "set" THEN Return("int", Cardinality(r.val))
    ELSE r

\* k_power_domination_number(G, k): the size i at which the first
\* k-power dominating set is found.
k_power_domination_number(g, kk) ==
    size_of_hit(subset_search(g, "power", kk, 1))

\* minimum_psd_zero_forcing_set(G)
minimum_psd_zero_forcing_set(g) == subset_search(g, "psd", 1, 1)

\* positive_semidefinite_zero_forcing_number(G)
positive_semidefinite_zero_forcing_number(g) ==
    len(minimum_psd_zero_forcing_set(g))

\* is_power_dominating_set(G, nodes)
is_power_dominating_set(g, nodes) == is_k_power_dominating_set(g, nodes, 1)

\* minimum_power_dominating_set(G)
minimum_power_dominating_set(g) == minimum_k_power_dominating_set(g, 1)

\* power_domination_number(G)
power_domination_number(g) == k_power_domination_number(g, 1)

----------------------------------------------------------------------------
(* The closure of a seed under a rule *)

Rules == {"k-forcing", "psd", "power"}

close(g, nodes, r, kk) ==
    CASE r = "k-forcing" -> k_forcing_closure(g, nodes, kk)
      [] r = "psd"       -> psd_color_change(g, nodes)
      [] r = "power"     -> power_closure(g, nodes, kk)

----------------------------------------------------------------------------
(* Inputs *)

\* The graphs on 0 .. n-1, 1 <= n <= MaxN, in insertion order 0, 1, ..., n-1.
Graphs ==
    UNION {{[nodes |-> IdentityOrder(n), edges |-> e] : e \in SUBSET AllPairs(n)} :
             n \in 1 .. MaxN}

\* No Havel-Hakimi run: residue has not been entered.
NoResidueRun ==
    /\ degrees = <<>> /\ rounds = 0

\* A fresh process: pulp.LpSolverDefault.msg has the library's default, on,
\* and no solve has run. solve_msg holds the msg setting that the latest
\* solve ran with.
FreshProcess ==
    /\ msg = 1 /\ solve_msg = <<>>

Idle ==
    /\ B = {} /\ op = "none" /\ ret = NotCalled
    /\ NoResidueRun
    /\ FreshProcess

----------------------------------------------------------------------------
(* Closing a seed, then closing the result again or closing a superset *)

InitClosure ==
    /\ G \in Graphs
    /\ rule \in Rules
    /\ k \in (IF rule = "psd" THEN {1} ELSE 1 .. MaxK)
    /\ S \in SUBSET V(G)
    /\ T = S
    /\ pc = "start"
    /\ closS = {} /\ closSS = {} /\ closT = {}
    /\ Idle

\* close(G, S, rule)
Close ==
    /\ pc = "start"
    /\ closS' = close(G, S, rule, k)
    /\ pc' = "closed"
    /\ UNCHANGED <<G, k, rule, S, T, closSS, closT, B, op, ret, degrees, rounds,
                 msg, solve_msg>>

\* close(G, close(G, S, rule), rule)
Reclose ==
    /\ pc = "closed"
    /\ closSS' = close(G, closS, rule, k)
    /\ pc' = "reclosed"
    /\ UNCHANGED <<G, k, rule, S, T, closS, closT, B, op, ret, degrees, rounds,
                 msg, solve_msg>>

\* close(G, T, rule) for a superset T of S
CloseSuperset ==
    /\ pc = "closed"
    /\ \E t \in {x \in SUBSET V(G) : S \subseteq x} :
          /\ T' = t
          /\ closT' = close(G, t, rule, k)
    /\ pc' = "done"
    /\ UNCHANGED <<G, k, rule, S, closS, closSS, B, op, ret, degrees, rounds,
                 msg, solve_msg>>

NextClosure == Close \/ Reclose

SpecClosure == InitClosure /\ [][NextClosure]_vars

NextMonotone == Close \/ CloseSuperset

SpecMonotone == InitClosure /\ [][NextMonotone]_vars

\* C1: for k-forcing and PSD forcing, closing the closure of a seed gives
\* the closure again.
C1_ClosureIdempotent ==
    (pc \in {"reclosed", "done"} /\ rule \in {"k-forcing", "psd"}) => closSS = closS

\* C1 witness: a seed that PSD forcing grows, but not to V, closed twice.
C1_Witness ==
    /\ pc = "reclosed" /\ rule = "psd"
    /\ closS # S /\ closS # V(G) /\ closSS = closS

\* C2 as stated: the power-domination closure (R3) is idempotent.
C2_PowerIdempotent_Original ==
    (pc \in {"reclosed", "done"} /\ rule = "power") => closSS = closS

\* C2 (amended): the R3 closure is a fixed point of the k-forcing rule R1
\* (k-forcing it again changes nothing) and applying R3 to it can only add
\* vertices: close_R3(S) is a subset of close_R3(close_R3(S)).
C2_PowerClosureFixedForR1 ==
    (pc \in {"reclosed", "done"} /\ rule = "power") =>
        /\ k_forcing_closure(G, closS, k) = closS
        /\ closS \subseteq closSS

\* C2 witness: R3 closed a seed to more than the seed and less than V, and
\* R3 applied to that closure adds vertices.
C2_Witness ==
    /\ pc = "reclosed" /\ rule = "power"
    /\ closS # S /\ closS # V(G)
    /\ closSS # closS

\* C3: the closure is monotone in the seed under every rule, so a superset
\* of a forcing set is a forcing set.
C3_ClosureMonotone ==
    (pc = "done") => (closS \subseteq closT /\ (closS = V(G) => closT = V(G)))

\* C3 witness: a proper superset whose closure is strictly larger, and a
\* forcing set with a proper superset.
C3_Witness ==
    /\ pc = "done" /\ S # T /\ closS # closT /\ closT # T /\ closS # S

----------------------------------------------------------------------------
(* Forcing one vertex at a time (rules R1 and R2 of the closure engine),    *)
(* against the batched rounds of is_k_forcing_set and psd_color_change      *)

\* R1: v is coloured and has between 1 and k white neighbours.
ActiveR1(g, Bset, v, kk) ==
    /\ v \in Bset
    /\ Cardinality({u \in V(g) \ Bset : {u, v} \in g.edges}) \in 1 .. kk

\* R2: the white vertices w such that some coloured v has w as its only
\* neighbour in w's component of the white subgraph.
ForcibleR2(g, Bset) ==
    {w \in V(g) \ Bset :
       \E v \in Bset :
          {u \in ReachFrom(g, V(g) \ Bset, {w}) : {u, v} \in g.edges} = {w}}

InitOrder ==
    /\ G \in Graphs
    /\ rule \in {"k-forcing", "psd"}
    /\ k \in (IF rule = "psd" THEN {1} ELSE 1 .. MaxK)
    /\ S \in SUBSET V(G)
    /\ T = S
    /\ B = S
    /\ pc = "forcing"
    /\ closS = {} /\ closSS = {} /\ closT = {}
    /\ op = "none" /\ ret = NotCalled
    /\ NoResidueRun
    /\ FreshProcess

\* One active vertex forces its white neighbours.
ForceOne ==
    /\ pc = "forcing" /\ rule = "k-forcing"
    /\ \E v \in B :
          /\ ActiveR1(G, B, v, k)
          /\ B' = B \cup {u \in V(G) : {u, v} \in G.edges}
    /\ UNCHANGED <<G, k, rule, S, T, pc, closS, closSS, closT, op, ret, degrees, rounds,
                 msg, solve_msg>>

\* One PSD force: one white vertex is coloured.
PsdForceOne ==
    /\ pc = "forcing" /\ rule = "psd"
    /\ \E w \in ForcibleR2(G, B) : B' = B \cup {w}
    /\ UNCHANGED <<G, k, rule, S, T, pc, closS, closSS, closT, op, ret, degrees, rounds,
                 msg, solve_msg>>

\* The run is maximal: no force is left. The batched closure of the seed is
\* computed for comparison.
RunEnds ==
    /\ pc = "forcing"
    /\ IF rule = "psd" THEN ForcibleR2(G, B) = {}
       ELSE \A v \in B : ~ActiveR1(G, B, v, k)
    /\ closS' = close(G, S, rule, k)
    /\ pc' = "stopped"
    /\ UNCHANGED <<G, k, rule, S, T, closSS, closT, B, op, ret, degrees, rounds,
                 msg, solve_msg>>

NextOrder == ForceOne \/ PsdForceOne \/ RunEnds

SpecOrder == InitOrder /\ [][NextOrder]_vars

\* C4: every maximal one-force-at-a-time run ends in the set the batched
\* rounds of is_k_forcing_set / psd_color_change reach from the same seed.
C4_OrderIndependent ==
    (pc = "stopped") => B = closS

\* C4 witness: a run that ended with a choice of forces along the way: the
\* seed had at least two k-forcing vertices with different neighbourhoods.
C4_Witness ==
    /\ pc = "stopped" /\ rule = "k-forcing" /\ B # S /\ B # V(G)
    /\ \E u, v \in S :
          /\ ActiveR1(G, S, u, k) /\ ActiveR1(G, S, v, k)
          /\ neighborhood(G, u) # neighborhood(G, v)

----------------------------------------------------------------------------
(* The minimum-set searches *)

\* Stored vertex orders: 0, 1, ..., n-1 and n-1, ..., 1, 0.
Orders(n) == {IdentityOrder(n), [i \in 1 .. n |-> n - i]}

GraphsOrdered ==
    UNION {{[nodes |-> o, edges |-> e] : e \in SUBSET AllPairs(n), o \in Orders(n)} :
             n \in 1 .. MaxN}

InitSearch ==
    /\ G \in GraphsOrdered
    /\ k \in 1 .. MaxK
    /\ pc = "start"
    /\ op = "none" /\ ret = NotCalled
    /\ rule = "none" /\ S = {} /\ T = {} /\ B = {}
    /\ closS = {} /\ closSS = {} /\ closT = {}
    /\ NoResidueRun
    /\ FreshProcess

\* A call of operation name that ends with outcome r.
Call(name, r) ==
    /\ pc = "start"
    /\ op' = name
    /\ ret' = r
    /\ pc' = "done"
    /\ UNCHANGED <<G, k, rule, S, T, closS, closSS, closT, B, degrees, rounds,
                 msg, solve_msg>>

\* A call of operation name that sets pulp.LpSolverDefault.msg to m, runs
\* prob.solve() with the default solver and ends with outcome r.
SolveCall(name, r, m) ==
    /\ pc = "start"
    /\ op' = name
    /\ ret' = r
    /\ pc' = "done"
    /\ msg' = m
    /\ solve_msg' = <<m>>
    /\ UNCHANGED <<G, k, rule, S, T, closS, closSS, closT, B, degrees, rounds>>

CallMinimumKForcingSet == Call("minimum_k_forcing_set", minimum_k_forcing_set(G, k))

CallKForcingNumber == Call("k_forcing_number", k_forcing_number(G, k))

CallZeroForcingNumber == k = 1 /\ Call("zero_forcing_number", zero_forcing_number(G))

CallMinimumTotalZeroForcingSet ==
    k = 1 /\ Call("minimum_total_zero_forcing_set", minimum_total_zero_forcing_set(G))

CallTotalZeroForcingNumber ==
    k = 1 /\ Call("total_zero_forcing_number", total_zero_forcing_number(G))

CallMinimumConnectedKForcingSet ==
    Call("minimum_connected_k_forcing_set", minimum_connected_k_forcing_set(G, k))

CallConnectedKForcingNumber ==
    Call("connected_k_forcing_number", connected_k_forcing_number(G, k))

NextSearch ==
    \/ CallMinimumKForcingSet
    \/ CallKForcingNumber
    \/ CallZeroForcingNumber
    \/ CallMinimumTotalZeroForcingSet
    \/ CallTotalZeroForcingNumber
    \/ CallMinimumConnectedKForcingSet
    \/ CallConnectedKForcingNumber

SpecSearch == InitSearch /\ [][NextSearch]_vars

\* X is a k-forcing set of G.
KForcing(X) == is_k_forcing_set(G, X, k).val

\* The positions of the vertices of X in the stored order of G.
Positions(X) == {j \in 1 .. order(G) : G.nodes[j] \in X}

\* For position sets of one size: P comes before Q in the lexicographic
\* order of their increasing tuples.
LexBefore(P, Q) == \E j \in P \ Q : \A m \in Q \ P : j < m

IsPath4 ==
    /\ G.nodes = IdentityOrder(4)
    /\ G.edges = {{0, 1}, {1, 2}, {2, 3}}

\* C5: minimum_k_forcing_set returns a k-forcing set, and no set with fewer
\* vertices (below the starting size of the search included) is k-forcing;
\* zero_forcing_number is the size of a smallest zero forcing set and is at
\* least the minimum degree.
C5_MinimumKForcingSetIsMinimum ==
    /\ (pc = "done" /\ op = "minimum_k_forcing_set") =>
          /\ ret.exc = "none" /\ ret.kind = "set"
          /\ ret.val \subseteq V(G)
          /\ KForcing(ret.val)
          /\ \A X \in SUBSET V(G) :
                Cardinality(X) < Cardinality(ret.val) => ~KForcing(X)
    /\ (pc = "done" /\ op = "zero_forcing_number") =>
          /\ ret.exc = "none" /\ ret.kind = "int"
          /\ \E X \in SUBSET V(G) : Cardinality(X) = ret.val /\ KForcing(X)
          /\ \A X \in SUBSET V(G) : KForcing(X) => ret.val <= Cardinality(X)
          /\ ret.val >= minimum_degree(G)

\* C5 witness: a zero forcing search that starts above size 1 (minimum
\* degree 2 or more), so that the sizes below its start were never tried.
C5_Witness ==
    /\ pc = "done" /\ op = "minimum_k_forcing_set" /\ k = 1
    /\ minimum_degree(G) >= 2
    /\ ret.kind = "set" /\ Cardinality(ret.val) >= 2

\* C6: among the k-forcing sets of minimum size, minimum_k_forcing_set
\* returns the one whose positions in the stored vertex order come first
\* lexicographically; on the path 0-1-2-3 with k = 1 it returns {0}.
C6_FirstInEnumerationOrder ==
    (pc = "done" /\ op = "minimum_k_forcing_set") =>
        /\ ret.exc = "none" /\ ret.kind = "set"
        /\ \A X \in SUBSET V(G) :
              (Cardinality(X) = Cardinality(ret.val) /\ KForcing(X) /\ X # ret.val)
                 => LexBefore(Positions(ret.val), Positions(X))
        /\ (IsPath4 /\ k = 1) => ret.val = {0}

\* C6 witness: the path 0-1-2-3 with k = 1, where {3} is a minimum zero
\* forcing set too and {0} is returned.
C6_Witness ==
    /\ pc = "done" /\ op = "minimum_k_forcing_set" /\ k = 1 /\ IsPath4
    /\ KForcing({3}) /\ ret.val = {0}

\* Some vertex of G has no neighbour.
HasIsolatedVertex == \E v \in V(G) : neighborhood(G, v) = {}

\* A total zero forcing set of G exists.
TotalZeroForcingSetExists ==
    \E X \in SUBSET V(G) :
        /\ is_k_forcing_set(G, X, 1).val
        /\ \A v \in X : neighborhood(G, v) \cap X # {}

\* C7 as stated: with no total zero forcing set, total_zero_forcing_number
\* ends in an error and returns no value.
C7_InfeasibleIsAnError_Original ==
    (pc = "done" /\ op = "total_zero_forcing_number" /\ ~TotalZeroForcingSetExists)
        => ret.exc # "none"

\* C7 (amended): with no total zero forcing set (so with an isolated vertex)
\* minimum_total_zero_forcing_set returns None, and total_zero_forcing_number
\* returns that None to its caller as an ordinary result: no error is raised.
C7_InfeasibleReturnsNone ==
    /\ HasIsolatedVertex => ~TotalZeroForcingSetExists
    /\ (/\ pc = "done"
        /\ op \in {"minimum_total_zero_forcing_set", "total_zero_forcing_number"}
        /\ ~TotalZeroForcingSetExists)
          => (ret.exc = "none" /\ ret.kind = "None")

\* C7 witness: total_zero_forcing_number was called on a graph with an
\* isolated vertex and an edge.
C7_Witness ==
    /\ pc = "done" /\ op = "total_zero_forcing_number"
    /\ HasIsolatedVertex /\ G.edges # {}
    /\ ret.kind = "None"

\* X is k-forcing, not empty, and induces a connected subgraph of G.
ConnectedKForcing(X) ==
    /\ X # {}
    /\ ReachFrom(G, X, {CHOOSE x \in X : TRUE}) = X
    /\ KForcing(X)

IsDisconnected == \E u, v \in V(G) : v \notin ReachFrom(G, V(G), {u})

\* C8: minimum_connected_k_forcing_set returns None exactly when G is
\* disconnected; on a connected G it returns a smallest set that is
\* k-forcing and induces a connected subgraph, and
\* connected_k_forcing_number returns its size.
C8_ConnectedKForcing ==
    /\ (pc = "done" /\ op = "minimum_connected_k_forcing_set") =>
          /\ ret.exc = "none"
          /\ (ret.kind = "None") <=> IsDisconnected
          /\ ~IsDisconnected =>
                /\ ret.kind = "set"
                /\ ConnectedKForcing(ret.val)
                /\ \A X \in SUBSET V(G) :
                      ConnectedKForcing(X) => Cardinality(ret.val) <= Cardinality(X)
    /\ (pc = "done" /\ op = "connected_k_forcing_number" /\ ~IsDisconnected) =>
          /\ ret.exc = "none" /\ ret.kind = "int"
          /\ \E X \in SUBSET V(G) : ConnectedKForcing(X) /\ Cardinality(X) = ret.val
          /\ \A X \in SUBSET V(G) : ConnectedKForcing(X) => ret.val <= Cardinality(X)

\* C8 witness: a connected graph whose smallest k-forcing sets are all
\* disconnected, so the connected search returns a larger set.
C8_Witness ==
    /\ pc = "done" /\ op = "minimum_connected_k_forcing_set"
    /\ ~IsDisconnected /\ ret.kind = "set"
    /\ \E X \in SUBSET V(G) : KForcing(X) /\ Cardinality(X) < Cardinality(ret.val)

\* The largest degree of a vertex of G.
MaximumDegree ==
    CHOOSE d \in 0 .. order(G) :
        /\ \E v \in V(G) : Cardinality(neighborhood(G, v)) = d
        /\ \A v \in V(G) : Cardinality(neighborhood(G, v)) <= d

\* G is the cycle 0-1-2-3-0 (nx.cycle_graph(4)).
IsCycle4 ==
    /\ order(G) = 4
    /\ G.edges = {{0, 1}, {1, 2}, {2, 3}, {0, 3}}

\* C14: on a connected graph, with k at least the maximum degree,
\* k_forcing_number returns 1 and every single vertex is a k-forcing set;
\* below the maximum degree the number can be larger: on the cycle C4 with
\* k = 1 it is 2.
C14_KForcingNumberAtMaxDegree ==
    /\ (pc = "done" /\ op = "k_forcing_number" /\ ~IsDisconnected
          /\ k >= MaximumDegree) =>
          /\ ret.exc = "none" /\ ret.kind = "int" /\ ret.val = 1
          /\ \A v \in V(G) : KForcing({v})
    /\ (pc = "done" /\ op = "k_forcing_number" /\ IsCycle4 /\ k = 1) =>
          (ret.exc = "none" /\ ret.kind = "int" /\ ret.val = 2)

\* C14 witness: a connected graph on 4 vertices with a vertex of degree 3,
\* k = 3, for which 1 was returned, while its zero forcing number is larger.
C14_Witness ==
    /\ pc = "done" /\ op = "k_forcing_number" /\ ~IsDisconnected
    /\ order(G) = 4 /\ MaximumDegree = 3 /\ k = 3
    /\ ret.kind = "int" /\ ret.val = 1
    /\ \A v \in V(G) : ~is_k_forcing_set(G, {v}, 1).val

----------------------------------------------------------------------------
(* Calls with a valid or an invalid k *)

\* The values of k that are not positive integers.
InvalidKs == {-1, 0}

InitParam ==
    /\ G \in Graphs
    /\ k \in InvalidKs \cup (1 .. MaxK)
    /\ S \in SUBSET V(G)
    /\ pc = "start"
    /\ op = "none" /\ ret = NotCalled
    /\ rule = "none" /\ T = {} /\ B = {}
    /\ closS = {} /\ closSS = {} /\ closT = {}
    /\ NoResidueRun
    /\ FreshProcess

CallIsKForcingSet == Call("is_k_forcing_set", is_k_forcing_set(G, S, k))

CallIsKPowerDominatingSet ==
    Call("is_k_power_dominating_set", is_k_power_dominating_set(G, S, k))

CallKPowerDominationNumber ==
    S = {} /\ Call("k_power_domination_number", k_power_domination_number(G, k))

CallMinimumKForcingSetAnyK ==
    S = {} /\ CallMinimumKForcingSet

CallKForcingNumberAnyK ==
    S = {} /\ CallKForcingNumber

NextParam ==
    \/ CallIsKForcingSet
    \/ CallIsKPowerDominatingSet
    \/ CallKPowerDominationNumber
    \/ CallMinimumKForcingSetAnyK
    \/ CallKForcingNumberAnyK

SpecParam == InitParam /\ [][NextParam]_vars

\* C9 as stated: with k < 1 each of is_k_forcing_set, minimum_k_forcing_set,
\* k_forcing_number, is_k_power_dominating_set and k_power_domination_number
\* ends with the bad-parameter error (ValueError) and returns nothing.
C9_InvalidKRejected ==
    (pc = "done" /\ k < 1) => ret.exc = "ValueError"

----------------------------------------------------------------------------
(* k-rainbow domination: the 0/1 program of solve_rainbow_domination *)

\* Largest number of colours drawn by Init (two_rainbow_domination_number).
MaxColors == 2

\* range(1, k + 1): empty when k < 1.
ColorRange(kk) == 1 .. kk

RECURSIVE SumOver(_, _)
\* pulp.lpSum: the sum of f[d] over d in D (0 for an empty D).
SumOver(f, D) ==
    IF D = {} THEN 0
    ELSE LET d == CHOOSE e \in D : TRUE
         IN  f[d] + SumOver(f, D \ {d})

\* The assignments of the binary variables f[v, i] and x[v].
RainbowAssignments(g, kk) ==
    [f : [V(g) \X ColorRange(kk) -> {0, 1}], x : [V(g) -> {0, 1}]]

\* Constraint 1 (each vertex has one colour or is uncoloured) and
\* constraint 2 (an uncoloured vertex has every colour among its neighbours).
RainbowFeasible(g, kk, a) ==
    /\ \A v \in V(g) :
          SumOver(a.f, {v} \X ColorRange(kk)) + a.x[v] = 1
    /\ \A v \in V(g) : \A i \in ColorRange(kk) :
          SumOver(a.f, neighborhood(g, v) \X {i}) >= a.x[v]

\* The objective: the number of coloured (vertex, colour) pairs.
RainbowObjective(g, kk, a) == SumOver(a.f, V(g) \X ColorRange(kk))

\* prob.solve(): the optimal solutions of the program; the solver returns
\* any one of them.
RainbowOptima(g, kk) ==
    LET feasible == {a \in RainbowAssignments(g, kk) : RainbowFeasible(g, kk, a)}
        values   == {RainbowObjective(g, kk, a) : a \in feasible}
        best     == CHOOSE m \in values : \A o \in values : m <= o
    IN  {a \in feasible : RainbowObjective(g, kk, a) = best}

\* The pair (colored_vertices, uncolored_vertices) read off a solution.
RainbowResult(g, kk, a) ==
    [colored   |-> {p \in V(g) \X ColorRange(kk) : a.f[p] = 1},
     uncolored |-> {v \in V(g) : a.x[v] = 1}]

InitRainbow ==
    /\ G \in Graphs
    /\ k \in InvalidKs \cup (1 .. MaxColors)
    /\ pc = "start"
    /\ op = "none" /\ ret = NotCalled
    /\ rule = "none" /\ S = {} /\ T = {} /\ B = {}
    /\ closS = {} /\ closSS = {} /\ closT = {}
    /\ NoResidueRun
    /\ FreshProcess

\* solve_rainbow_domination(G, k): no test of k; the solver's messages are
\* turned off, the program is built over range(1, k + 1) and solved.
CallSolveRainbowDomination ==
    \E a \in RainbowOptima(G, k) :
        SolveCall("solve_rainbow_domination", Return("pair", RainbowResult(G, k, a)), 0)

\* rainbow_domination_number(G, k) = len(colored_vertices)
CallRainbowDominationNumber ==
    \E a \in RainbowOptima(G, k) :
        SolveCall("rainbow_domination_number",
                  Return("int", Cardinality(RainbowResult(G, k, a).colored)), 0)

NextRainbow == CallSolveRainbowDomination \/ CallRainbowDominationNumber

SpecRainbow == InitRainbow /\ [][NextRainbow]_vars

\* C10 as stated: with k < 1, solve_rainbow_domination and
\* rainbow_domination_number fail with the bad-parameter error (ValueError)
\* and return no number.
C10_RainbowInvalidKRejected ==
    (pc = "done" /\ k < 1) => ret.exc = "ValueError"

----------------------------------------------------------------------------
(* Power domination against ordinary domination *)

InitPower ==
    /\ G \in Graphs
    /\ k = 1
    /\ S \in SUBSET V(G)
    /\ pc = "start"
    /\ op = "none" /\ ret = NotCalled
    /\ rule = "none" /\ T = {} /\ B = {}
    /\ closS = {} /\ closSS = {} /\ closT = {}
    /\ NoResidueRun
    /\ FreshProcess

CallIsPowerDominatingSet ==
    Call("is_power_dominating_set", is_power_dominating_set(G, S))

CallMinimumPowerDominatingSet ==
    S = {} /\ Call("minimum_power_dominating_set", minimum_power_dominating_set(G))

CallPowerDominationNumber ==
    S = {} /\ Call("power_domination_number", power_domination_number(G))

NextPower ==
    \/ CallIsPowerDominatingSet
    \/ CallMinimumPowerDominatingSet
    \/ CallPowerDominationNumber

SpecPower == InitPower /\ [][NextPower]_vars

\* X is a dominating set of G: N[X] = V.
IsDominating(X) == set_closed_neighbors(G, X) = V(G)

\* The minimum size of a dominating set of G.
DominationNumber ==
    CHOOSE m \in 0 .. order(G) :
        /\ \E X \in SUBSET V(G) : IsDominating(X) /\ Cardinality(X) = m
        /\ \A X \in SUBSET V(G) : IsDominating(X) => m <= Cardinality(X)

\* C11: every dominating set is a power dominating set, and
\* power_domination_number(G) is at most the domination number of G (the
\* minimum size of a set S with N[S] = V).
C11_PowerAtMostDomination ==
    /\ (pc = "done" /\ op = "is_power_dominating_set" /\ IsDominating(S)) =>
          (ret.exc = "none" /\ ret.kind = "bool" /\ ret.val)
    /\ (pc = "done" /\ op = "minimum_power_dominating_set") =>
          (ret.exc = "none" /\ ret.kind = "set" /\ Cardinality(ret.val) <= DominationNumber)
    /\ (pc = "done" /\ op = "power_domination_number") =>
          (ret.exc = "none" /\ ret.kind = "int" /\ ret.val <= DominationNumber)

\* C11 witness: a graph whose power domination number is strictly below its
\* domination number (the path 0-1-2-3: 1 against 2).
C11_Witness ==
    /\ pc = "done" /\ op = "power_domination_number"
    /\ ret.kind = "int" /\ ret.val < DominationNumber

----------------------------------------------------------------------------
(* The PSD zero forcing number *)

\* Largest order of a tree drawn by Init (test_zero_forcing draws the trees
\* on 2 to 5 vertices).
MaxTreeN == 5

\* The edge sets of the labelled trees on 0 .. n-1 (nx.random_labeled_tree).
TreeEdges(n) ==
    {e \in SUBSET AllPairs(n) :
        /\ Cardinality(e) = n - 1
        /\ ReachFrom([nodes |-> IdentityOrder(n), edges |-> e], Vertices(n), {0})
              = Vertices(n)}

TreesOrdered ==
    UNION {{[nodes |-> o, edges |-> e] : e \in TreeEdges(n), o \in Orders(n)} :
             n \in 2 .. MaxTreeN}

InitPsd ==
    /\ G \in GraphsOrdered \cup TreesOrdered
    /\ k = 1
    /\ pc = "start"
    /\ op = "none" /\ ret = NotCalled
    /\ rule = "psd" /\ S = {} /\ T = {} /\ B = {}
    /\ closS = {} /\ closSS = {} /\ closT = {}
    /\ NoResidueRun
    /\ FreshProcess

CallMinimumPsdZeroForcingSet ==
    Call("minimum_psd_zero_forcing_set", minimum_psd_zero_forcing_set(G))

CallPositiveSemidefiniteZeroForcingNumber ==
    Call("positive_semidefinite_zero_forcing_number",
         positive_semidefinite_zero_forcing_number(G))

NextPsd ==
    \/ CallMinimumPsdZeroForcingSet
    \/ CallPositiveSemidefiniteZeroForcingNumber

SpecPsd == InitPsd /\ [][NextPsd]_vars

\* G is a tree: connected, with n - 1 edges.
IsTree ==
    /\ Cardinality(G.edges) = order(G) - 1
    /\ ReachFrom(G, V(G), {G.nodes[1]}) = V(G)

\* G is the complete graph on 4 vertices.
IsK4 == order(G) = 4 /\ G.edges = AllPairs(4)

\* C12: on every tree with at least 2 vertices, under each labelling and
\* stored vertex order, positive_semidefinite_zero_forcing_number returns 1
\* and minimum_psd_zero_forcing_set a single vertex: some single vertex is a
\* PSD forcing set.
C12_TreePsdNumberIsOne ==
    /\ (pc = "done" /\ op = "positive_semidefinite_zero_forcing_number"
          /\ IsTree /\ order(G) >= 2) =>
          /\ ret.exc = "none" /\ ret.kind = "int" /\ ret.val = 1
          /\ \E v \in V(G) : psd_color_change(G, {v}) = V(G)
    /\ (pc = "done" /\ op = "minimum_psd_zero_forcing_set"
          /\ IsTree /\ order(G) >= 2) =>
          /\ ret.exc = "none" /\ ret.kind = "set" /\ Cardinality(ret.val) = 1
          /\ psd_color_change(G, ret.val) = V(G)

\* C12 witness: a tree on 5 vertices with a vertex of degree 3 or more (no
\* single vertex is a zero forcing set of it), stored in reversed order.
C12_Witness ==
    /\ pc = "done" /\ op = "positive_semidefinite_zero_forcing_number"
    /\ IsTree /\ order(G) = 5 /\ G.nodes # IdentityOrder(5)
    /\ \E v \in V(G) : Cardinality(neighborhood(G, v)) >= 3
    /\ \A v \in V(G) : ~is_k_forcing_set(G, {v}, 1).val
    /\ ret.val = 1

\* C13 as stated: on K4, positive_semidefinite_zero_forcing_number returns 1.
C13_K4PsdNumberIsOne_Original ==
    (pc = "done" /\ op = "positive_semidefinite_zero_forcing_number" /\ IsK4)
        => (ret.kind = "int" /\ ret.val = 1)

\* C13 (amended): on K4, positive_semidefinite_zero_forcing_number returns
\* 3: with one or two black vertices the white vertices form one component
\* in which every black vertex has 2 or 3 neighbours, so nothing is forced;
\* no set of fewer than 3 vertices is a PSD forcing set.
C13_K4PsdNumberIsThree ==
    (pc = "done" /\ op = "positive_semidefinite_zero_forcing_number" /\ IsK4) =>
        /\ ret.exc = "none" /\ ret.kind = "int" /\ ret.val = 3
        /\ \A X \in SUBSET V(G) :
              Cardinality(X) < 3 => psd_color_change(G, X) = X

\* C13 witness: the call on K4 has returned 3.
C13_Witness ==
    /\ pc = "done" /\ op = "positive_semidefinite_zero_forcing_number"
    /\ IsK4 /\ ret.kind = "int" /\ ret.val = 3

----------------------------------------------------------------------------
(* Degree sequences *)

\* degree.degree: the number of neighbours of v.
degree(g, v) == Cardinality(neighborhood(g, v))

\* degree.degree_sequence: the degrees of the vertices, in stored order.
degree_sequence(g) == [i \in 1 .. order(g) |-> degree(g, g.nodes[i])]

\* D.sort(reverse=True) with the fault of leaving out reverse=True: the
\* list is put in non-decreasing order.
sort_ascending(D) ==
    [j \in 1 .. Len(D) |->
        CHOOSE v \in {D[i] : i \in 1 .. Len(D)} :
            /\ Cardinality({i \in 1 .. Len(D) : D[i] < v}) < j
            /\ j <= Cardinality({i \in 1 .. Len(D) : D[i] <= v})]

\* D.sort(reverse=True): non-increasing order. The entry at position j is
\* the value v with fewer than j entries above it and at least j entries
\* that are v or more.
sort_reverse(D) ==
    [j \in 1 .. Len(D) |->
        CHOOSE v \in {D[i] : i \in 1 .. Len(D)} :
            /\ Cardinality({i \in 1 .. Len(D) : D[i] > v}) < j
            /\ j <= Cardinality({i \in 1 .. Len(D) : D[i] >= v})]

\* sum(D[:i]): the sum of the first min(i, len(D)) entries.
RECURSIVE sum_prefix(_, _)
sum_prefix(D, i) ==
    IF i <= 0 \/ D = <<>> THEN 0
    ELSE D[1] + sum_prefix(Tail(D), i - 1)

----------------------------------------------------------------------------
(* residue: the Havel-Hakimi loop, one round at a time *)

\* The null graph (nx.Graph()).
NullGraph == [nodes |-> <<>>, edges |-> {}]

\* The decrement with the fault "degrees[i] -= 2".
decrement_first_by_two(D, max_degree) ==
    [i \in 1 .. Len(D) |-> IF i <= max_degree THEN D[i] - 2 ELSE D[i]]

\* "for i in range(max_degree): degrees[i] -= 1" on the list left by pop(0).
decrement_first(D, max_degree) ==
    [i \in 1 .. Len(D) |-> IF i <= max_degree THEN D[i] - 1 ELSE D[i]]

\* The body of the while loop with the fault of leaving out the re-sort.
havel_hakimi_round_unsorted(D) ==
    decrement_first(Tail(D), D[1])

\* The body of the while loop: pop the maximum, decrement the next
\* max_degree entries, sort again.
havel_hakimi_round(D) ==
    sort_reverse(decrement_first(Tail(D), D[1]))

\* degrees[0] on an empty list, or "degrees[i] -= 1" past the end of the
\* list left by pop(0): an IndexError.
index_out_of_range(D) ==
    IF Len(D) = 0 THEN TRUE ELSE D[1] > 0 /\ D[1] > Len(D) - 1

\* "while degrees[0] > 0"
loop_condition(D) == D[1] > 0

InitResidue ==
    /\ G \in Graphs \cup {NullGraph}
    /\ k = 1
    /\ pc = "start"
    /\ op = "none" /\ ret = NotCalled
    /\ rule = "none" /\ S = {} /\ T = {} /\ B = {}
    /\ closS = {} /\ closSS = {} /\ closT = {}
    /\ NoResidueRun
    /\ FreshProcess

\* residue(G) is entered: the degree sequence is read and sorted.
ResidueEnter ==
    /\ pc = "start"
    /\ op' = "residue"
    /\ degrees' = sort_reverse(degree_sequence(G))
    /\ rounds' = 0
    /\ pc' = "while"
    /\ UNCHANGED <<G, k, rule, S, T, closS, closSS, closT, B, ret, msg, solve_msg>>

\* "while degrees[0] > 0" holds and the body runs once.
ResidueRound ==
    /\ pc = "while"
    /\ ~index_out_of_range(degrees)
    /\ loop_condition(degrees)
    /\ degrees' = havel_hakimi_round(degrees)
    /\ rounds' = rounds + 1
    /\ UNCHANGED <<G, k, rule, S, T, pc, closS, closSS, closT, B, op, ret,
                 msg, solve_msg>>

\* degrees[0] is read on an empty list, or the body indexes past the end.
ResidueIndexError ==
    /\ pc = "while"
    /\ index_out_of_range(degrees)
    /\ ret' = Raise("IndexError")
    /\ pc' = "done"
    /\ UNCHANGED <<G, k, rule, S, T, closS, closSS, closT, B, op, degrees, rounds,
                 msg, solve_msg>>

\* The loop is left and len(degrees) is returned.
ResidueReturn ==
    /\ pc = "while"
    /\ ~index_out_of_range(degrees)
    /\ ~loop_condition(degrees)
    /\ ret' = Return("int", Len(degrees))
    /\ pc' = "done"
    /\ UNCHANGED <<G, k, rule, S, T, closS, closSS, closT, B, op, degrees, rounds,
                 msg, solve_msg>>

NextResidue ==
    \/ ResidueEnter
    \/ ResidueRound
    \/ ResidueIndexError
    \/ ResidueReturn

SpecResidue == InitResidue /\ [][NextResidue]_vars

\* The call runs on: a step of residue that is enabled is taken.
FairSpecResidue == SpecResidue /\ WF_vars(NextResidue)

\* The number of zero entries of the list degrees.
ZeroEntries == Cardinality({i \in 1 .. Len(degrees) : degrees[i] = 0})

\* C15: on the degree sequence of a graph with n >= 1 vertices the
\* Havel-Hakimi loop of residue runs at most n rounds and then stops; the
\* list left at the end holds only zeros, and the number returned is the
\* number of those zeros.
C15_HavelHakimiTerminates ==
    /\ [](order(G) >= 1 =>
            /\ rounds <= order(G)
            /\ (pc = "done" /\ op = "residue") =>
                  /\ ret.exc = "none" /\ ret.kind = "int"
                  /\ \A i \in 1 .. Len(degrees) : degrees[i] = 0
                  /\ ret.val = ZeroEntries)
    /\ <>(pc = "done")

\* C15 witness: a run of two rounds or more, on a graph with a vertex of
\* degree 2 or more, that ended with two or more zeros.
C15_Witness ==
    /\ pc = "done" /\ op = "residue" /\ order(G) >= 1
    /\ \E v \in V(G) : degree(G, v) >= 2
    /\ rounds >= 2 /\ ret.kind = "int" /\ ret.val >= 2

C30_HavelHakimiInBounds ==
    order(G) >= 1 =>
        /\ pc = "while" =>
              /\ Len(degrees) >= 1
              /\ ~index_out_of_range(degrees)
              /\ \A i \in 1 .. Len(degrees) : degrees[i] >= 0
              /\ \A i \in 1 .. Len(degrees) : degrees[i] <= Len(degrees) - 1
              /\ \A i \in 1 .. (Len(degrees) - 1) :
                    decrement_first(Tail(degrees), degrees[1])[i] >= 0
        /\ (pc = "done" /\ op = "residue") =>
              /\ ret.exc = "none" /\ ret.kind = "int"
              /\ ret.val >= 1

\* C30 witness: residue has returned on a graph on 4 vertices with a vertex
\* of degree 3, whose first round pops 3 with exactly 3 entries remaining.
C30_Witness ==
    /\ pc = "done" /\ op = "residue"
    /\ order(G) = 4 /\ \E v \in V(G) : degree(G, v) = 3
    /\ rounds >= 1 /\ ret.kind = "int" /\ ret.val >= 1

----------------------------------------------------------------------------
(* Index-threshold invariants of the sorted degree sequence *)

\* Python's a / b on integers: a float. The quotient is kept as the exact
\* fraction a over b: the floats met here are compared with an integer only,
\* and a quotient that is not an integer is at least 1/b away from every
\* integer, far more than the rounding of a double at these magnitudes.
true_div(a, b) == [num |-> a, den |-> b]

\* i + q for an integer i and a float q.
int_plus_float(i, q) == [num |-> i * q.den + q.num, den |-> q.den]

\* q >= n for a float q (of positive denominator) and an integer n.
float_ge_int(q, n) == q.num >= n * q.den

\* The test of sub_k_domination_number with the fault ">" for ">=".
sub_k_test_strict(D, kk, n, i) ==
    int_plus_float(i, true_div(sum_prefix(D, i), kk)).num
        > n * int_plus_float(i, true_div(sum_prefix(D, i), kk)).den

\* "i + (sum(D[:i]) / k) >= n"
sub_k_test(D, kk, n, i) ==
    float_ge_int(int_plus_float(i, true_div(sum_prefix(D, i), kk)), n)

RECURSIVE sub_k_scan(_, _, _, _)
\* "for i in range(n + 1): if ...: return i", from i on; None when the loop
\* completes.
sub_k_scan(D, kk, n, i) ==
    IF i > n THEN ReturnNone
    ELSE IF sub_k_test(D, kk, n, i) THEN Return("int", i)
    ELSE sub_k_scan(D, kk, n, i + 1)

\* sub_k_domination_number(G, k), for an integer k.
sub_k_domination_number(g, kk) ==
    IF kk < 1 THEN Raise("ValueError")
    ELSE sub_k_scan(sort_reverse(degree_sequence(g)), kk, order(g), 0)

\* slater(G)
slater(g) == sub_k_domination_number(g, 1)

\* The test of sub_total_domination_number with the fault ">" for ">=".
sub_total_test_strict(D, n, i) == sum_prefix(D, i) > n

\* "sum(D[:i]) >= n"
sub_total_test(D, n, i) == sum_prefix(D, i) >= n

RECURSIVE sub_total_scan(_, _, _)
\* "for i in range(n + 1): if ...: return i", from i on; None when the loop
\* completes.
sub_total_scan(D, n, i) ==
    IF i > n THEN ReturnNone
    ELSE IF sub_total_test(D, n, i) THEN Return("int", i)
    ELSE sub_total_scan(D, n, i + 1)

\* sub_total_domination_number(G)
sub_total_domination_number(g) ==
    sub_total_scan(sort_reverse(degree_sequence(g)), order(g), 0)

----------------------------------------------------------------------------
(* The dominating-set program of minimum_dominating_set *)

\* The assignments of the binary variables x[node].
DominatingAssignments(g) == [V(g) -> {0, 1}]

\* The constraints with the fault ">= 0" for ">= 1": nothing is required.
DominatingFeasible_unconstrained(g, x) ==
    \A node \in V(g) : SumOver(x, closed_neighborhood(g, node)) >= 0

\* The constraints: every closed neighbourhood holds a chosen vertex.
DominatingFeasible(g, x) ==
    \A node \in V(g) : SumOver(x, closed_neighborhood(g, node)) >= 1

\* The objective: the number of chosen vertices.
DominatingObjective(g, x) == SumOver(x, V(g))

\* prob.solve(): the optimal solutions of the program; the solver returns
\* any one of them.
DominatingOptima(g) ==
    LET feasible == {x \in DominatingAssignments(g) : DominatingFeasible(g, x)}
        values   == {DominatingObjective(g, x) : x \in feasible}
        best     == CHOOSE m \in values : \A o \in values : m <= o
    IN  {x \in feasible : DominatingObjective(g, x) = best}

\* The solution set read off a solution.
solution_set(g, x) == {node \in V(g) : x[node] = 1}

----------------------------------------------------------------------------
(* Calls of the degree-sequence invariants and of the domination number *)

InitDegree ==
    /\ G \in Graphs
    /\ k \in InvalidKs \cup (1 .. MaxK)
    /\ pc = "start"
    /\ op = "none" /\ ret = NotCalled
    /\ rule = "none" /\ S = {} /\ T = {} /\ B = {}
    /\ closS = {} /\ closSS = {} /\ closT = {}
    /\ NoResidueRun
    /\ FreshProcess

CallSubKDominationNumber ==
    Call("sub_k_domination_number", sub_k_domination_number(G, k))

CallSlater == k = 1 /\ Call("slater", slater(G))

CallSubTotalDominationNumber ==
    k = 1 /\ Call("sub_total_domination_number", sub_total_domination_number(G))

\* minimum_dominating_set(G): the solver's messages are turned off, the
\* program is built and solved, the chosen vertices are returned.
CallMinimumDominatingSet ==
    /\ pc = "start"
    /\ k = 1
    /\ \E x \in DominatingOptima(G) :
          SolveCall("minimum_dominating_set", Return("set", solution_set(G, x)), 0)

\* domination_number(G) = len(minimum_dominating_set(G))
CallDominationNumber ==
    /\ pc = "start"
    /\ k = 1
    /\ \E x \in DominatingOptima(G) :
          SolveCall("domination_number", len(Return("set", solution_set(G, x))), 0)

NextDegree ==
    \/ CallSubKDominationNumber
    \/ CallSlater
    \/ CallSubTotalDominationNumber
    \/ CallMinimumDominatingSet
    \/ CallDominationNumber

SpecDegree == InitDegree /\ [][NextDegree]_vars

\* The sum of the t largest degrees of G: the largest degree sum of a set of
\* t vertices.
LargestDegreeSum(t) ==
    LET d == [v \in V(G) |-> degree(G, v)]
        sums == {SumOver(d, X) : X \in {Y \in SUBSET V(G) : Cardinality(Y) = t}}
    IN  CHOOSE m \in sums : \A o \in sums : o <= m

\* t meets the sub-k-domination threshold: k*t + (sum of the t largest
\* degrees) >= k*n.
MeetsSubK(t, kk) == kk * t + LargestDegreeSum(t) >= kk * order(G)

\* C17: for k >= 1, sub_k_domination_number returns an integer t with
\* 1 <= t <= n, never None, the smallest t with k*t + (sum of the t largest
\* degrees) >= k*n; slater(G) is sub_k_domination_number(G, 1).
C17_SubKDominationNumber ==
    /\ (pc = "done" /\ op = "sub_k_domination_number" /\ k >= 1) =>
          /\ ret.exc = "none" /\ ret.kind = "int"
          /\ ret.val \in 1 .. order(G)
          /\ MeetsSubK(ret.val, k)
          /\ \A t \in 0 .. (ret.val - 1) : ~MeetsSubK(t, k)
    /\ (pc = "done" /\ op = "slater") =>
          /\ ret.exc = "none" /\ ret.kind = "int"
          /\ ret.val = sub_k_domination_number(G, 1).val
          /\ ret.val \in 1 .. order(G)
          /\ MeetsSubK(ret.val, 1)
          /\ \A t \in 0 .. (ret.val - 1) : ~MeetsSubK(t, 1)

\* C17 witness: a call with k >= 2 whose quotient sum(D[:t]) / k is not an
\* integer at the t returned, and with 1 < t < n.
C17_Witness ==
    /\ pc = "done" /\ op = "sub_k_domination_number" /\ k >= 2
    /\ ret.kind = "int" /\ ret.val > 1 /\ ret.val < order(G)
    /\ LargestDegreeSum(ret.val) % k # 0

\* 2m, the sum of the degrees of G.
DegreeSum == LargestDegreeSum(order(G))

C19_SlaterAtMostDomination ==
    /\ (pc = "done" /\ op = "slater") =>
          (ret.exc = "none" /\ ret.kind = "int" /\ ret.val <= DominationNumber)
    /\ (pc = "done" /\ op = "minimum_dominating_set") =>
          /\ ret.exc = "none" /\ ret.kind = "set"
          /\ IsDominating(ret.val)
          /\ slater(G).val <= Cardinality(ret.val)
    /\ (pc = "done" /\ op = "domination_number") =>
          /\ ret.exc = "none" /\ ret.kind = "int"
          /\ ret.val = DominationNumber
          /\ slater(G).kind = "int" /\ slater(G).val <= ret.val

\* C19 witness: a graph whose domination number is strictly above its Slater
\* number.
C19_Witness ==
    /\ pc = "done" /\ op = "domination_number"
    /\ ret.kind = "int" /\ slater(G).val < ret.val

----------------------------------------------------------------------------
(* Maximum independent set and maximum clique *)

\* maximum_clique with the fault of not taking the complement.
complement_not_taken(g) == g

\* SimpleGraph.complement / nx.complement(G): the same vertices in the same
\* order, and the pairs of distinct vertices that are not edges of G.
complement(g) ==
    [nodes |-> g.nodes,
     edges |-> {e \in SUBSET V(g) : Cardinality(e) = 2} \ g.edges]

\* The assignments of the binary variables x_v.
IndependentAssignments(g) == [V(g) -> {0, 1}]

\* The constraints: x_u + x_v <= 1 for every edge.
IndependentFeasible(g, x) ==
    \A e \in g.edges : SumOver(x, e) <= 1

\* The objective: the number of selected vertices.
IndependentObjective(g, x) == SumOver(x, V(g))

\* prob.solve(solver): the status, and with status Optimal any one of the
\* optimal solutions.
IndependentSolve(g) ==
    LET feasible == {x \in IndependentAssignments(g) : IndependentFeasible(g, x)}
        values   == {IndependentObjective(g, x) : x \in feasible}
        best     == CHOOSE m \in values : \A o \in values : o <= m
    IN  IF feasible = {} THEN {[status |-> "Infeasible", x |-> <<>>]}
        ELSE {[status |-> "Optimal", x |-> a] :
                a \in {x \in feasible : IndependentObjective(g, x) = best}}

\* maximum_independent_set(G), the solver having answered sol: a ValueError
\* unless the status is Optimal, else the vertices with value 1.
maximum_independent_set(g, sol) ==
    IF sol.status # "Optimal" THEN Raise("ValueError")
    ELSE Return("set", {v \in V(g) : sol.x[v] = 1})

\* independence_number(G)
independence_number(g, sol) == len(maximum_independent_set(g, sol))

\* maximum_clique(G): both branches of the hasattr test take the complement.
maximum_clique(g, sol) == maximum_independent_set(complement(g), sol)

\* clique_number(G)
clique_number(g, sol) == independence_number(complement(g), sol)

InitClique ==
    /\ G \in Graphs \cup {NullGraph}
    /\ k = 1
    /\ pc = "start"
    /\ op = "none" /\ ret = NotCalled
    /\ rule = "none" /\ S = {} /\ T = {} /\ B = {}
    /\ closS = {} /\ closSS = {} /\ closT = {}
    /\ NoResidueRun
    /\ FreshProcess

CallMaximumIndependentSet ==
    \E sol \in IndependentSolve(G) :
        Call("maximum_independent_set", maximum_independent_set(G, sol))

CallIndependenceNumber ==
    \E sol \in IndependentSolve(G) :
        Call("independence_number", independence_number(G, sol))

CallMaximumClique ==
    \E sol \in IndependentSolve(complement(G)) :
        Call("maximum_clique", maximum_clique(G, sol))

CallCliqueNumber ==
    \E sol \in IndependentSolve(complement(G)) :
        Call("clique_number", clique_number(G, sol))

NextClique ==
    \/ CallMaximumIndependentSet
    \/ CallIndependenceNumber
    \/ CallMaximumClique
    \/ CallCliqueNumber

SpecClique == InitClique /\ [][NextClique]_vars

\* The vertices of X are pairwise adjacent in G.
IsClique(X) == \A u, v \in X : u # v => {u, v} \in G.edges

\* The vertices of X are pairwise non-adjacent in the graph g.
IsIndependentIn(g, X) == \A u, v \in X : {u, v} \notin g.edges

\* The largest size of a clique of G.
CliqueNumber ==
    CHOOSE m \in 0 .. order(G) :
        /\ \E X \in SUBSET V(G) : IsClique(X) /\ Cardinality(X) = m
        /\ \A X \in SUBSET V(G) : IsClique(X) => Cardinality(X) <= m

\* C20: on every graph, the null graph and disconnected graphs included,
\* maximum_clique returns a set of pairwise adjacent vertices of the largest
\* size of any such set, which is a maximum independent set of the
\* complement; clique_number returns that size, which is what
\* independence_number returns on the complement.
C20_MaximumClique ==
    /\ (pc = "done" /\ op = "maximum_clique") =>
          /\ ret.exc = "none" /\ ret.kind = "set"
          /\ ret.val \subseteq V(G)
          /\ IsClique(ret.val)
          /\ Cardinality(ret.val) = CliqueNumber
          /\ IsIndependentIn(complement(G), ret.val)
          /\ \A X \in SUBSET V(G) :
                IsIndependentIn(complement(G), X) => Cardinality(X) <= Cardinality(ret.val)
          /\ G = NullGraph => ret.val = {}
    /\ (pc = "done" /\ op = "clique_number") =>
          /\ ret.exc = "none" /\ ret.kind = "int"
          /\ ret.val = CliqueNumber
          /\ \A sol \in IndependentSolve(complement(G)) :
                independence_number(complement(G), sol) = ret

\* C20 witness: a disconnected graph on 4 vertices, a triangle and an
\* isolated vertex, on which the triangle was returned.
C20_Witness ==
    /\ pc = "done" /\ op = "maximum_clique"
    /\ order(G) = 4 /\ IsDisconnected /\ HasIsolatedVertex
    /\ ret.kind = "set" /\ Cardinality(ret.val) = 3

----------------------------------------------------------------------------
(* The colouring program of optimal_proper_coloring and chromatic_number *)

\* The largest number of vertices of a graph that is coloured.
MaxColoringN == 3

\* range(G.order()): the colour indices.
ColoringRange(g) == 0 .. (order(g) - 1)

\* A row of binary variables node_colors[node] with a single 1, at index i.
OneHot(g, i) == [j \in ColoringRange(g) |-> IF j = i THEN 1 ELSE 0]

\* The assignments of the binary variables colors[i] and node_colors[node][i].
\* Only the rows that can meet sum(node_colors[node]) == 1 are enumerated
\* (the rows with a single 1); the constraint itself is in ColoringFeasible.
ColoringAssignments(g) ==
    [colors      : [ColoringRange(g) -> {0, 1}],
     node_colors : [V(g) -> {OneHot(g, i) : i \in ColoringRange(g)}]]

\* The constraints with the fault of leaving out the edge constraints.
ColoringFeasible_no_edge_constraints(g, a) ==
    /\ \A node \in V(g) : \A i \in ColoringRange(g) :
          a.node_colors[node][i] <= a.colors[i]
    /\ \A node \in V(g) : SumOver(a.node_colors[node], ColoringRange(g)) = 1

\* The constraints: a colour held by a node is a used colour, the ends of an
\* edge do not share a colour, and every node has one colour.
ColoringFeasible(g, a) ==
    /\ \A node \in V(g) : \A i \in ColoringRange(g) :
          a.node_colors[node][i] <= a.colors[i]
    /\ \A edge \in g.edges : \A i \in ColoringRange(g) :
          \A u, v \in edge :
              u # v => a.node_colors[u][i] + a.node_colors[v][i] <= 1
    /\ \A node \in V(g) : SumOver(a.node_colors[node], ColoringRange(g)) = 1

\* The objective: the number of used colours.
ColoringObjective(g, a) == SumOver(a.colors, ColoringRange(g))

\* prob.solve(solver): the status, and with status Optimal any one of the
\* optimal solutions.
ColoringSolve(g) ==
    LET feasible == {a \in ColoringAssignments(g) : ColoringFeasible(g, a)}
        values   == {ColoringObjective(g, a) : a \in feasible}
        best     == CHOOSE m \in values : \A o \in values : m <= o
    IN  IF feasible = {} THEN {[status |-> "Infeasible", a |-> <<>>]}
        ELSE {[status |-> "Optimal", a |-> b] :
                b \in {a \in feasible : ColoringObjective(g, a) = best}}

\* The list of the nodes, in stored order, whose variable of a colour is 1.
color_class(g, a, color) ==
    SelectSeq(g.nodes, LAMBDA node : a.node_colors[node][color] = 1)

\* optimal_proper_coloring(G), the solver having answered sol: a ValueError
\* unless the status is Optimal, else the map from every colour index to the
\* list of its nodes.
optimal_proper_coloring(g, sol) ==
    IF sol.status # "Optimal" THEN Raise("ValueError")
    ELSE Return("map", [color \in ColoringRange(g) |-> color_class(g, sol.a, color)])

\* The number of colours with a non-empty list.
count_nonempty(g, coloring) ==
    IF coloring.exc # "none" THEN coloring
    ELSE Return("int", Cardinality({color \in ColoringRange(g) :
                                       Len(coloring.val[color]) > 0}))

\* chromatic_number(G)
chromatic_number(g, sol) == count_nonempty(g, optimal_proper_coloring(g, sol))

\* The graphs on 1 .. MaxColoringN vertices, in both stored orders.
ColoringGraphs == {g \in GraphsOrdered : order(g) <= MaxColoringN}

InitColoring ==
    /\ G \in ColoringGraphs
    /\ k = 1
    /\ pc = "start"
    /\ op = "none" /\ ret = NotCalled
    /\ rule = "none" /\ S = {} /\ T = {} /\ B = {}
    /\ closS = {} /\ closSS = {} /\ closT = {}
    /\ NoResidueRun
    /\ FreshProcess

CallOptimalProperColoring ==
    /\ pc = "start"
    /\ \E sol \in ColoringSolve(G) :
          Call("optimal_proper_coloring", optimal_proper_coloring(G, sol))

CallChromaticNumber ==
    /\ pc = "start"
    /\ \E sol \in ColoringSolve(G) :
          Call("chromatic_number", chromatic_number(G, sol))

NextColoring ==
    \/ CallOptimalProperColoring
    \/ CallChromaticNumber
    \/ CallCliqueNumber

SpecColoring == InitColoring /\ [][NextColoring]_vars

\* The members of a list.
Members(s) == {s[j] : j \in 1 .. Len(s)}

\* f gives the two ends of every edge of G different colours.
IsProper(f) == \A e \in G.edges : \A u, v \in e : u # v => f[u] # f[v]

\* The least number of colours of a proper colouring of G.
ChromaticNumber ==
    CHOOSE m \in 1 .. order(G) :
        /\ \E f \in [V(G) -> 1 .. m] : IsProper(f)
        /\ \A j \in 1 .. (m - 1) : \A f \in [V(G) -> 1 .. j] : ~IsProper(f)

\* C21: on every graph on n >= 1 vertices, optimal_proper_coloring returns a
\* map over the colour indices 0 .. n-1 whose classes are pairwise disjoint,
\* cover V and hold no edge of G; chromatic_number, the number of non-empty
\* classes, is the least number of colours of a proper colouring of G and is
\* at least clique_number(G).
C21_ProperColoring ==
    /\ (pc = "done" /\ op = "optimal_proper_coloring") =>
          /\ ret.exc = "none" /\ ret.kind = "map"
          /\ DOMAIN ret.val = 0 .. (order(G) - 1)
          /\ \A i, j \in DOMAIN ret.val :
                i # j => Members(ret.val[i]) \cap Members(ret.val[j]) = {}
          /\ \A i \in DOMAIN ret.val :
                Cardinality(Members(ret.val[i])) = Len(ret.val[i])
          /\ UNION {Members(ret.val[i]) : i \in DOMAIN ret.val} = V(G)
          /\ \A i \in DOMAIN ret.val : \A e \in G.edges :
                ~(e \subseteq Members(ret.val[i]))
          /\ Cardinality({i \in DOMAIN ret.val : Len(ret.val[i]) > 0}) = ChromaticNumber
    /\ (pc = "done" /\ op = "chromatic_number") =>
          /\ ret.exc = "none" /\ ret.kind = "int"
          /\ ret.val = ChromaticNumber
          /\ ret.val >= CliqueNumber
          /\ \A sol \in IndependentSolve(complement(G)) :
                ret.val >= clique_number(G, sol).val

\* C21 witness: the path on 3 vertices was coloured with 2 colours, one
\* class holding the two ends, and one colour index was left empty.
C21_Witness ==
    /\ pc = "done" /\ op = "optimal_proper_coloring"
    /\ order(G) = 3 /\ Cardinality(G.edges) = 2
    /\ ret.kind = "map"
    /\ \E i \in DOMAIN ret.val : Len(ret.val[i]) = 2
    /\ \E i \in DOMAIN ret.val : Len(ret.val[i]) = 0

----------------------------------------------------------------------------
(* The total and independent domination programs, the line graph and the
   outer-connected search of graphcomp/domination.py *)

\* The constraints of minimum_total_domination_set: every open
\* neighbourhood holds a chosen vertex.
TotalFeasible(g, x) ==
    \A node \in V(g) : SumOver(x, neighborhood(g, node)) >= 1

\* The constraints of minimum_independent_dominating_set: the ends of an
\* edge are not both chosen, and every open neighbourhood (neighborhood, not
\* closed_neighborhood) holds a chosen vertex.
IndependentDominatingFeasible(g, x) ==
    /\ \A e \in g.edges : SumOver(x, e) <= 1
    /\ \A node \in V(g) : SumOver(x, neighborhood(g, node)) >= 1

\* prob.solve() of a program that minimises the number of chosen vertices
\* over the set feasible: with a feasible program any optimal solution.
\* With an infeasible one the status says so and the values of the
\* variables are whatever the solver left in them; only "value() == 1" is
\* read from them, so they are given as 1 or not 1 (0).
MinimizeChosen(g, feasible) ==
    LET values == {SumOver(x, V(g)) : x \in feasible}
        best   == CHOOSE m \in values : \A o \in values : m <= o
    IN  IF feasible = {}
        THEN {[status |-> "Infeasible", x |-> a] : a \in [V(g) -> {0, 1}]}
        ELSE {[status |-> "Optimal", x |-> a] :
                a \in {x \in feasible : SumOver(x, V(g)) = best}}

\* prob.solve() in minimum_total_domination_set
TotalSolve(g) ==
    MinimizeChosen(g, {x \in [V(g) -> {0, 1}] : TotalFeasible(g, x)})

\* prob.solve() in minimum_independent_dominating_set
IndependentDominatingSolve(g) ==
    MinimizeChosen(g, {x \in [V(g) -> {0, 1}] : IndependentDominatingFeasible(g, x)})

\* minimum_total_domination_set(G), the solver having answered sol: the
\* status is not read, the vertices with value 1 are returned.
minimum_total_domination_set(g, sol) == Return("set", solution_set(g, sol.x))

\* total_domination_number(G)
total_domination_number(g, sol) == len(minimum_total_domination_set(g, sol))

\* minimum_independent_dominating_set(G), the solver having answered sol:
\* the status is not read, the vertices with value 1 are returned.
minimum_independent_dominating_set(g, sol) == Return("set", solution_set(g, sol.x))

\* independent_domination_number(G)
independent_domination_number(g, sol) ==
    len(minimum_independent_dominating_set(g, sol))

RECURSIVE as_list(_)
\* The members of a finite set in some order of iteration.
as_list(X) ==
    IF X = {} THEN <<>>
    ELSE LET x == CHOOSE y \in X : TRUE
         IN  <<x>> \o as_list(X \ {x})

\* The line graph with the fault of joining the edges that share no end.
line_graph_of_disjoint_edges(g) ==
    [nodes |-> as_list(g.edges),
     edges |-> {{e, f} : e, f \in g.edges} \ {{e} : e \in g.edges}]

\* nx.line_graph(G): a node for every edge of G, two of them adjacent when
\* the edges share an end.
line_graph(g) ==
    [nodes |-> as_list(g.edges),
     edges |-> {p \in {{e, f} : e, f \in g.edges} :
                  \E e, f \in p : e # f /\ e \cap f # {}}]

\* min_maximal_matching_number(G) = domination_number(nx.line_graph(G)), the
\* solver having answered x on the program of the line graph.
min_maximal_matching_number(g, x) ==
    len(Return("set", solution_set(line_graph(g), x)))

\* min_outer_connected_dominating_set(G)
min_outer_connected_dominating_set(g) == subset_search(g, "outer-connected", 1, 1)

\* outer_connected_domination_number(G)
outer_connected_domination_number(g) == len(min_outer_connected_dominating_set(g))

InitDomination ==
    /\ G \in Graphs
    /\ k = 1
    /\ pc = "start"
    /\ op = "none" /\ ret = NotCalled
    /\ rule = "none" /\ S = {} /\ T = {} /\ B = {}
    /\ closS = {} /\ closSS = {} /\ closT = {}
    /\ NoResidueRun
    /\ FreshProcess

\* minimum_total_domination_set(G): the solver's messages are turned off,
\* the program is built and solved.
CallMinimumTotalDominationSet ==
    /\ pc = "start"
    /\ \E sol \in TotalSolve(G) :
          SolveCall("minimum_total_domination_set",
                    minimum_total_domination_set(G, sol), 0)

CallTotalDominationNumber ==
    /\ pc = "start"
    /\ \E sol \in TotalSolve(G) :
          SolveCall("total_domination_number", total_domination_number(G, sol), 0)

\* minimum_independent_dominating_set(G): pulp.LpSolverDefault.msg is left
\* as it is, the program is built and solved.
CallMinimumIndependentDominatingSet ==
    /\ pc = "start"
    /\ \E sol \in IndependentDominatingSolve(G) :
          SolveCall("minimum_independent_dominating_set",
                    minimum_independent_dominating_set(G, sol), msg)

CallIndependentDominationNumber ==
    /\ pc = "start"
    /\ \E sol \in IndependentDominatingSolve(G) :
          SolveCall("independent_domination_number",
                    independent_domination_number(G, sol), msg)

\* min_maximal_matching_number(G): the domination program of the line
\* graph, solved with the solver's messages turned off.
CallMinMaximalMatchingNumber ==
    /\ pc = "start"
    /\ \E x \in DominatingOptima(line_graph(G)) :
          SolveCall("min_maximal_matching_number",
                    min_maximal_matching_number(G, x), 0)

\* min_outer_connected_dominating_set(G): a search, no solve.
CallMinOuterConnectedDominatingSet ==
    Call("min_outer_connected_dominating_set", min_outer_connected_dominating_set(G))

CallOuterConnectedDominationNumber ==
    Call("outer_connected_domination_number", outer_connected_domination_number(G))

\* The caller goes on to its next call in the same process.
AnotherCall ==
    /\ pc = "done"
    /\ pc' = "start"
    /\ op' = "none"
    /\ ret' = NotCalled
    /\ UNCHANGED <<G, k, rule, S, T, closS, closSS, closT, B, degrees, rounds,
                   msg, solve_msg>>

NextDomination ==
    \/ CallMinimumDominatingSet
    \/ CallDominationNumber
    \/ CallMinimumTotalDominationSet
    \/ CallTotalDominationNumber
    \/ CallMinimumIndependentDominatingSet
    \/ CallIndependentDominationNumber
    \/ CallMinOuterConnectedDominatingSet
    \/ CallOuterConnectedDominationNumber
    \/ AnotherCall

SpecDomination == InitDomination /\ [][NextDomination]_vars

\* A single call of min_maximal_matching_number on a graph.
NextMatching == CallMinMaximalMatchingNumber

SpecMatching == InitDomination /\ [][NextMatching]_vars

\* X is an independent dominating set of G.
IsIndependentDominating(X) ==
    /\ X \subseteq V(G)
    /\ IsIndependentIn(G, X)
    /\ IsDominating(X)

\* The least size of an independent dominating set of G.
IndependentDominationNumber ==
    CHOOSE m \in 0 .. order(G) :
        /\ \E X \in SUBSET V(G) : IsIndependentDominating(X) /\ Cardinality(X) = m
        /\ \A X \in SUBSET V(G) : IsIndependentDominating(X) => Cardinality(X) >= m

\* C22 as stated: on every graph on n >= 1 vertices
\* minimum_independent_dominating_set returns an independent set that
\* dominates every vertex (N[S] = V) and is of the least size among such
\* sets, and independent_domination_number returns that size.
C22_IndependentDominatingSet ==
    /\ (pc = "done" /\ op = "minimum_independent_dominating_set") =>
          /\ ret.exc = "none" /\ ret.kind = "set"
          /\ IsIndependentDominating(ret.val)
          /\ Cardinality(ret.val) = IndependentDominationNumber
    /\ (pc = "done" /\ op = "independent_domination_number") =>
          /\ ret.exc = "none" /\ ret.kind = "int"
          /\ ret.val = IndependentDominationNumber

\* The program of a solver-backed operation on G has no feasible solution.
NoOptimalSolve(name) ==
    CASE name \in {"minimum_total_domination_set", "total_domination_number"} ->
            \A sol \in TotalSolve(G) : sol.status # "Optimal"
      [] name \in {"minimum_independent_dominating_set",
                   "independent_domination_number"} ->
            \A sol \in IndependentDominatingSolve(G) : sol.status # "Optimal"
      [] OTHER -> FALSE

\* C23 as stated: a solver-backed operation whose solve does not end with
\* status Optimal fails with an error and returns no set and no number; in
\* particular total_domination_number on a graph with an isolated vertex.
C23_NonOptimalSolveFails ==
    /\ (pc = "done" /\ NoOptimalSolve(op)) => ret.exc # "none"
    /\ (pc = "done" /\ op = "total_domination_number" /\ HasIsolatedVertex) =>
          ret.exc # "none"

\* C24 as stated: in every sequence of calls from a fresh process every
\* solve runs with the solver's messages off, whatever calls came before.
C24_EverySolveIsSilent == \A j \in 1 .. Len(solve_msg) : solve_msg[j] = 0

\* M is a maximal matching of G: pairwise disjoint edges, and every other
\* edge meets one of them.
IsMaximalMatching(M) ==
    /\ M \subseteq G.edges
    /\ \A e, f \in M : e # f => e \cap f = {}
    /\ \A e \in G.edges \ M : \E f \in M : e \cap f # {}

\* The least size of a maximal matching of G.
MinMaximalMatchingSize ==
    CHOOSE m \in 0 .. Cardinality(G.edges) :
        /\ \E M \in SUBSET G.edges : IsMaximalMatching(M) /\ Cardinality(M) = m
        /\ \A M \in SUBSET G.edges : IsMaximalMatching(M) => Cardinality(M) >= m

\* C25: on every graph with at least one edge min_maximal_matching_number,
\* the domination number of the line graph, is the least size of a maximal
\* matching of G.
C25_MinMaximalMatching ==
    (pc = "done" /\ op = "min_maximal_matching_number" /\ G.edges # {}) =>
        /\ ret.exc = "none" /\ ret.kind = "int"
        /\ ret.val = MinMaximalMatchingSize
        /\ ret.val >= 1

\* C25 witness: the path on 4 vertices, whose middle edge alone is a
\* maximal matching, while a maximum matching has 2 edges.
C25_Witness ==
    /\ pc = "done" /\ op = "min_maximal_matching_number"
    /\ IsPath4
    /\ ret.kind = "int" /\ ret.val = 1

\* X is an outer-connected dominating set of G: X dominates G and the
\* vertices outside X, if any, induce a connected subgraph.
IsOuterConnectedDominating(X) ==
    /\ X \subseteq V(G)
    /\ IsDominating(X)
    /\ Cardinality(connected_components(subgraph(G, V(G) \ X))) <= 1

\* C29 as stated: on every graph on n >= 1 vertices, the single-vertex
\* graph and the graphs whose only candidate is S = V included,
\* min_outer_connected_dominating_set returns a smallest non-empty set that
\* is dominating with a connected complement, and
\* outer_connected_domination_number returns its size.
C29_OuterConnectedDominatingSet ==
    /\ (pc = "done" /\ op = "min_outer_connected_dominating_set") =>
          /\ ret.exc = "none" /\ ret.kind = "set"
          /\ ret.val # {}
          /\ IsOuterConnectedDominating(ret.val)
          /\ \A X \in SUBSET V(G) :
                (X # {} /\ IsOuterConnectedDominating(X)) =>
                    Cardinality(ret.val) <= Cardinality(X)
    /\ (pc = "done" /\ op = "outer_connected_domination_number") =>
          /\ ret.exc = "none" /\ ret.kind = "int"
          /\ \E X \in SUBSET V(G) :
                /\ X # {} /\ IsOuterConnectedDominating(X)
                /\ Cardinality(X) = ret.val
          /\ \A X \in SUBSET V(G) :
                (X # {} /\ IsOuterConnectedDominating(X)) => ret.val <= Cardinality(X)

----------------------------------------------------------------------------
(* The double Roman domination program of double_roman_domination *)

\* The largest number of vertices of a graph given to the double Roman
\* program.
MaxRomanN == 3

\* The assignments of the binary variables x[v], y[v] and z[v].
DoubleRomanAssignments(g) ==
    [x : [V(g) -> {0, 1}], y : [V(g) -> {0, 1}], z : [V(g) -> {0, 1}]]

\* Constraint (1b) with the fault of the coefficient 1 for 0.5: in halves,
\* 2 (x_v + y_v + z_v) + 2 sum y_u + 2 sum z_u >= 2.
constraint_1b_whole(g, a, v) ==
    2 * (a.x[v] + a.y[v] + a.z[v])
      + 2 * SumOver(a.y, neighborhood(g, v))
      + 2 * SumOver(a.z, neighborhood(g, v)) >= 2

\* Constraint (1b): x_v + y_v + z_v + 0.5 sum y_u + sum z_u >= 1 over the
\* neighbours u of v; both sides are counted in halves, which 0.5 times an
\* integer gives exactly.
constraint_1b(g, a, v) ==
    2 * (a.x[v] + a.y[v] + a.z[v])
      + SumOver(a.y, neighborhood(g, v))
      + 2 * SumOver(a.z, neighborhood(g, v)) >= 2

\* Constraints (1b), (1c): sum (y_u + z_u) >= x_v, and (1d):
\* x_v + y_v + z_v <= 1.
DoubleRomanFeasible(g, a) ==
    /\ \A v \in V(g) : a.x[v] + a.y[v] + a.z[v] <= 1
    /\ \A v \in V(g) : constraint_1b(g, a, v)
    /\ \A v \in V(g) :
          SumOver(a.y, neighborhood(g, v)) + SumOver(a.z, neighborhood(g, v)) >= a.x[v]

\* The objective: sum (x_v + 2 y_v + 3 z_v).
DoubleRomanObjective(g, a) ==
    SumOver([v \in V(g) |-> a.x[v] + 2 * a.y[v] + 3 * a.z[v]], V(g))

\* prob.solve(): the optimal solutions of the program; the solver returns
\* any one of them.
DoubleRomanOptima(g) ==
    LET feasible == {a \in DoubleRomanAssignments(g) : DoubleRomanFeasible(g, a)}
        values   == {DoubleRomanObjective(g, a) : a \in feasible}
        best     == CHOOSE m \in values : \A o \in values : m <= o
    IN  {a \in feasible : DoubleRomanObjective(g, a) = best}

\* double_roman_domination(graph), the solver having answered a: the values
\* of the variables and of the objective.
double_roman_domination(g, a) ==
    Return("solution", [x |-> a.x, y |-> a.y, z |-> a.z,
                        objective |-> DoubleRomanObjective(g, a)])

\* double_roman_domination_number(graph) = solution["objective"]
double_roman_domination_number(g, a) ==
    Return("float", double_roman_domination(g, a).val.objective)

\* The assignments of the binary variables x[v] and y[v] of roman_domination.
RomanAssignments(g) == [x : [V(g) -> {0, 1}], y : [V(g) -> {0, 1}]]

\* The constraints of roman_domination: x_v + y_v + sum y_u >= 1 over the
\* neighbours u of v, and x_v + y_v <= 1.
RomanFeasible(g, a) ==
    /\ \A v \in V(g) : a.x[v] + a.y[v] + SumOver(a.y, neighborhood(g, v)) >= 1
    /\ \A v \in V(g) : a.x[v] + a.y[v] <= 1

\* The objective: sum (x_v + 2 y_v).
RomanObjective(g, a) == SumOver([v \in V(g) |-> a.x[v] + 2 * a.y[v]], V(g))

\* prob.solve(): the optimal solutions of the program; the solver returns
\* any one of them.
RomanOptima(g) ==
    LET feasible == {a \in RomanAssignments(g) : RomanFeasible(g, a)}
        values   == {RomanObjective(g, a) : a \in feasible}
        best     == CHOOSE m \in values : \A o \in values : m <= o
    IN  {a \in feasible : RomanObjective(g, a) = best}

\* roman_domination(graph), the solver having answered a.
roman_domination(g, a) ==
    Return("solution", [x |-> a.x, y |-> a.y, objective |-> RomanObjective(g, a)])

\* roman_domination_number(graph) = solution["objective"]
roman_domination_number(g, a) ==
    Return("float", roman_domination(g, a).val.objective)

\* The graphs on 1 .. MaxRomanN vertices, in both stored orders.
RomanGraphs == {g \in GraphsOrdered : order(g) <= MaxRomanN}

InitRoman ==
    /\ G \in RomanGraphs
    /\ k = 1
    /\ pc = "start"
    /\ op = "none" /\ ret = NotCalled
    /\ rule = "none" /\ S = {} /\ T = {} /\ B = {}
    /\ closS = {} /\ closSS = {} /\ closT = {}
    /\ NoResidueRun
    /\ FreshProcess

\* double_roman_domination(graph): the solver's messages are turned off,
\* the program is built and solved.
CallDoubleRomanDomination ==
    /\ pc = "start"
    /\ \E a \in DoubleRomanOptima(G) :
          SolveCall("double_roman_domination", double_roman_domination(G, a), 0)

CallDoubleRomanDominationNumber ==
    /\ pc = "start"
    /\ \E a \in DoubleRomanOptima(G) :
          SolveCall("double_roman_domination_number",
                    double_roman_domination_number(G, a), 0)

\* roman_domination(graph): the solver's messages are turned off, the
\* program is built and solved.
CallRomanDomination ==
    /\ pc = "start"
    /\ \E a \in RomanOptima(G) :
          SolveCall("roman_domination", roman_domination(G, a), 0)

CallRomanDominationNumber ==
    /\ pc = "start"
    /\ \E a \in RomanOptima(G) :
          SolveCall("roman_domination_number", roman_domination_number(G, a), 0)

NextRoman ==
    \/ CallRomanDomination
    \/ CallRomanDominationNumber
    \/ CallDoubleRomanDomination
    \/ CallDoubleRomanDominationNumber

SpecRoman == InitRoman /\ [][NextRoman]_vars

\* f is a double Roman dominating function of G: a vertex with f = 0 has a
\* neighbour with f = 3 or two neighbours with f = 2, a vertex with f = 1
\* has a neighbour with f >= 2.
IsDoubleRoman(f) ==
    \A v \in V(G) :
        /\ f[v] = 0 =>
              \/ \E u \in neighborhood(G, v) : f[u] = 3
              \/ Cardinality({u \in neighborhood(G, v) : f[u] = 2}) >= 2
        /\ f[v] = 1 => \E u \in neighborhood(G, v) : f[u] >= 2

\* The total weight of f.
Weight(f) == SumOver(f, V(G))

\* The least total weight of a double Roman dominating function of G.
DoubleRomanNumber ==
    CHOOSE m \in 0 .. 3 * order(G) :
        /\ \E f \in [V(G) -> 0 .. 3] : IsDoubleRoman(f) /\ Weight(f) = m
        /\ \A f \in [V(G) -> 0 .. 3] : IsDoubleRoman(f) => Weight(f) >= m

\* C26: on every graph on n >= 1 vertices double_roman_domination_number is
\* the optimum of the 0/1 program, which is the least total weight of a
\* function f: V -> {0,1,2,3} such that every vertex with f = 0 has a
\* neighbour with f = 3 or at least two neighbours with f = 2 and every
\* vertex with f = 1 has a neighbour with f >= 2; the solution returned by
\* double_roman_domination is such a function of that weight.
C26_DoubleRomanNumber ==
    /\ (pc = "done" /\ op = "double_roman_domination_number") =>
          /\ ret.exc = "none" /\ ret.kind = "float"
          /\ ret.val = DoubleRomanNumber
          /\ \A a \in DoubleRomanOptima(G) : DoubleRomanObjective(G, a) = ret.val
    /\ (pc = "done" /\ op = "double_roman_domination") =>
          /\ ret.exc = "none" /\ ret.kind = "solution"
          /\ ret.val.objective = DoubleRomanNumber
          /\ LET f == [v \in V(G) |->
                         ret.val.x[v] + 2 * ret.val.y[v] + 3 * ret.val.z[v]]
             IN  /\ \A v \in V(G) : f[v] \in 0 .. 3
                 /\ IsDoubleRoman(f)
                 /\ Weight(f) = ret.val.objective

\* C26 witness: the path on 3 vertices, where giving 2 to the middle vertex
\* alone is not enough for the ends and the number is 3.
C26_Witness ==
    /\ pc = "done" /\ op = "double_roman_domination_number"
    /\ order(G) = 3 /\ Cardinality(G.edges) = 2
    /\ ret.kind = "float" /\ ret.val = 3

----------------------------------------------------------------------------
(* The closure loops round by round: the caller's seed S, the local
   coloured set B (Z in is_k_forcing_set, black_set in psd_color_change) *)

\* The closure and predicate operations that run a closure loop.
LoopRules == {"k-forcing", "total", "connected", "power", "psd"}

\* psd_color_change with the fault of taking no copy: the local name
\* black_set is the caller's collection.
black_set_not_copied == "caller"

\* "black_set = set(black_set)": the local name black_set is bound to a new
\* set, which is the object that black_set.update(new_black) changes.
black_set_object == "copy"

\* The while body of is_k_forcing_set with the fault "Z_temp = set()" for
\* "Z_temp = Z.copy()": only the neighbourhoods of the active vertices are
\* kept.
k_forcing_body_without_copy(g, Z, kk) ==
    UNION {neighborhood(g, v) : v \in {u \in Z : is_k_forcing_vertex(g, u, Z, kk).val}}

\* The while body of is_k_forcing_set: Z_temp = Z.copy(), the neighbourhoods
\* of the active vertices are added to Z_temp, Z = Z_temp.
k_forcing_body(g, Z, kk) == k_forcing_round(g, Z, kk)

InitLoop ==
    /\ G \in Graphs
    /\ rule \in LoopRules
    /\ k \in IF rule \in {"total", "psd"} THEN {1} ELSE 1 .. MaxK
    /\ S \in SUBSET V(G)
    /\ pc = "start"
    /\ op = "none" /\ ret = NotCalled
    /\ T = {} /\ B = {}
    /\ closS = {} /\ closSS = {} /\ closT = {}
    /\ NoResidueRun
    /\ FreshProcess

\* The while loop of is_k_forcing_set is reached with Z = Z0.
enter_k_forcing_loop(name, Z0) ==
    /\ op' = name
    /\ B' = Z0
    /\ rounds' = 0
    /\ pc' = "k-forcing loop"
    /\ UNCHANGED <<G, k, rule, S, T, closS, closSS, closT, ret, degrees, msg, solve_msg>>

\* The operation ends before any loop with outcome r.
return_early(name, r) ==
    /\ op' = name
    /\ ret' = r
    /\ pc' = "done"
    /\ UNCHANGED <<G, k, rule, S, T, closS, closSS, closT, B, degrees, rounds,
                   msg, solve_msg>>

\* is_k_forcing_set(G, nodes, k) is entered: Z = set(n for n in nodes if n in G).
EnterIsKForcingSet ==
    /\ pc = "start" /\ rule = "k-forcing"
    /\ enter_k_forcing_loop("is_k_forcing_set", {n \in S : n \in V(G)})

\* is_k_power_dominating_set(G, nodes, k) is entered: is_k_forcing_set is
\* called on set_closed_neighbors(G, nodes).
EnterIsKPowerDominatingSet ==
    /\ pc = "start" /\ rule = "power"
    /\ enter_k_forcing_loop("is_k_power_dominating_set",
                            {n \in set_closed_neighbors(G, S) : n \in V(G)})

\* is_total_zero_forcing_set(G, nodes) is entered: False when a vertex of
\* S = set(n for n in nodes if n in G) has no neighbour in S, else
\* is_zero_forcing_set(G, S).
EnterIsTotalZeroForcingSet ==
    /\ pc = "start" /\ rule = "total"
    /\ IF \E v \in S \cap V(G) : neighborhood(G, v) \cap (S \cap V(G)) = {}
       THEN return_early("is_total_zero_forcing_set", Return("bool", FALSE))
       ELSE enter_k_forcing_loop("is_total_zero_forcing_set", S \cap V(G))

\* is_connected_k_forcing_set(G, nodes, k) is entered: connected(H) on the
\* subgraph induced by S = set(n for n in nodes if n in G) raises or is
\* false, or is_k_forcing_set(G, S, k) is called.
EnterIsConnectedKForcingSet ==
    /\ pc = "start" /\ rule = "connected"
    /\ IF connected(subgraph(G, S \cap V(G))).exc # "none"
       THEN return_early("is_connected_k_forcing_set",
                         connected(subgraph(G, S \cap V(G))))
       ELSE IF ~connected(subgraph(G, S \cap V(G))).val
       THEN return_early("is_connected_k_forcing_set", Return("bool", FALSE))
       ELSE enter_k_forcing_loop("is_connected_k_forcing_set", S \cap V(G))

\* "while is_k_forcing_active_set(G, Z, k)" holds and the body runs once.
KForcingRound ==
    /\ pc = "k-forcing loop"
    /\ is_k_forcing_active_set(G, B, k).val
    /\ B' = k_forcing_body(G, B, k)
    /\ rounds' = rounds + 1
    /\ UNCHANGED <<G, k, rule, S, T, pc, closS, closSS, closT, op, ret, degrees,
                   msg, solve_msg>>

\* The while loop is left: return Z == set(G.nodes()).
KForcingReturn ==
    /\ pc = "k-forcing loop"
    /\ ~is_k_forcing_active_set(G, B, k).val
    /\ ret' = Return("bool", B = V(G))
    /\ pc' = "done"
    /\ UNCHANGED <<G, k, rule, S, T, closS, closSS, closT, B, op, degrees, rounds,
                   msg, solve_msg>>

\* psd_color_change(G, black_set) is entered: black_set = set(black_set) and
\* white_set = set(G.nodes()) - black_set.
EnterPsdColorChange ==
    /\ pc = "start" /\ rule = "psd"
    /\ op' = "psd_color_change"
    /\ B' = S
    /\ rounds' = 0
    /\ pc' = "psd loop"
    /\ UNCHANGED <<G, k, rule, S, T, closS, closSS, closT, ret, degrees, msg, solve_msg>>

\* A pass of "while True" with new_black not empty:
\* black_set.update(new_black) changes the object that black_set names, and
\* white_set -= new_black.
PsdRound ==
    /\ pc = "psd loop"
    /\ psd_new_black(G, B, V(G) \ B) # {}
    /\ B' = B \cup psd_new_black(G, B, V(G) \ B)
    /\ S' = IF black_set_object = "caller" THEN B' ELSE S
    /\ rounds' = rounds + 1
    /\ UNCHANGED <<G, k, rule, T, pc, closS, closSS, closT, op, ret, degrees,
                   msg, solve_msg>>

\* A pass with new_black empty: break, return black_set.
PsdReturn ==
    /\ pc = "psd loop"
    /\ psd_new_black(G, B, V(G) \ B) = {}
    /\ ret' = Return("set", B)
    /\ pc' = "done"
    /\ UNCHANGED <<G, k, rule, S, T, closS, closSS, closT, B, op, degrees, rounds,
                   msg, solve_msg>>

NextLoop ==
    \/ EnterIsKForcingSet
    \/ EnterIsKPowerDominatingSet
    \/ EnterIsTotalZeroForcingSet
    \/ EnterIsConnectedKForcingSet
    \/ KForcingRound
    \/ KForcingReturn
    \/ EnterPsdColorChange
    \/ PsdRound
    \/ PsdReturn

SpecLoop == InitLoop /\ [][NextLoop]_vars

C28_LoopsProgress ==
    /\ [][/\ B \subseteq B'
          /\ rounds' = rounds + 1 =>
                /\ B' # B
                /\ (B' \ B) \subseteq (V(G) \ B)]_vars
    /\ [](rounds <= order(G) /\ B \subseteq V(G))
    /\ []((pc = "done" /\ op = "psd_color_change") =>
             /\ psd_new_black(G, B, V(G) \ B) = {}
             /\ \A v \in B : \A component \in connected_components(subgraph(G, V(G) \ B)) :
                   ~is_psd_forcing_vertex(G, v, B, component).can_force)
    /\ []((pc = "done" /\ op # "psd_color_change") =>
             /\ \A v \in B : ~is_k_forcing_vertex(G, v, B, k).val
             /\ k_forcing_round(G, B, k) = B)

\* C28 witness: a loop was left after two or more rounds with every vertex
\* of a graph on four vertices coloured.
C28_Witness ==
    /\ pc = "done" /\ op \in {"is_k_forcing_set", "psd_color_change"}
    /\ rounds >= 2
    /\ order(G) = 4 /\ B = V(G)

====
